---- MODULE Spec2Model ----
(***************************************************************************)
(* DNS-coordinated active/passive failover (mikempw/failover).             *)
(*                                                                         *)
(* Spec      : the failover controller of dns_failover.py -- the primary   *)
(*             heartbeat loop, the DR heartbeat loop and the one-shot      *)
(*             admin commands, all writing one (A, TXT) record pair        *)
(*             through a DNS provider, with the lease codec modelled       *)
(*             character by character.                                     *)
(* Strings are sequences of one-character strings.                         *)
(***************************************************************************)
EXTENDS Integers, Sequences, FiniteSets, TLC

\* ------------------------------------------------------------------ bounds
MaxTime == 7          \* the clock stops advancing here
MaxAdmin == 1         \* admin commands an operator issues in one run
lease_ttl == 3        \* LEASE_TTL, scaled down (validate: > update_interval)
update_interval == 2  \* UPDATE_INTERVAL, scaled down
fail_threshold == 2   \* FAIL_THRESHOLD, scaled down
failback_clean_checks == 2  \* FAILBACK_CLEAN_CHECKS, scaled down
MaxRows == 1          \* rows a site ingests into one unit
MaxClean == 3         \* cycles stop once consecutive_clean gets here
MaxTs == 6            \* largest gap timestamp of a merge_consecutive call
MaxStep == 3          \* largest query_step of a merge_consecutive call
MaxChunk == 3         \* largest small chunk_size of the chunking loop
MaxObs == 4           \* reads of the A record the two watchers are fed
MaxExp == 12          \* largest exp of an encoded lease
MaxValue == 5         \* largest value the metric is read at
MaxStale == 5         \* checks stop once stale_checks gets here
health_stale_count == 3  \* HEALTH_STALE_COUNT

\* ------------------------------------------------------------ lease codec
None == <<"None">>          \* Python None where a string is expected
NoIp == "None"              \* Python None where an IP is expected

primary_ip == "10.10.10.10"
dr_ip == "10.20.20.10"

PRIMARY == <<"p","r","i","m","a","r","y">>
DR == <<"d","r">>
OWNER_KEY == <<"o","w","n","e","r">>
EXP_KEY == <<"e","x","p">>

Digits == <<"0","1","2","3","4","5","6","7","8","9">>

IsDigit(c) == \E d \in 1..10 : Digits[d] = c

DigitVal(c) == (CHOOSE d \in 1..10 : Digits[d] = c) - 1

RECURSIVE StrNat(_)
StrNat(n) ==
  IF n < 10 THEN <<Digits[n + 1]>>
  ELSE StrNat(n \div 10) \o <<Digits[(n % 10) + 1]>>

\* str(int) / the f-string conversion of an int
Str(n) == IF n < 0 THEN <<"-">> \o StrNat(0 - n) ELSE StrNat(n)

FormatTxtComma(owner, exp_unix) ==
  OWNER_KEY \o <<"=">> \o owner \o <<",">> \o EXP_KEY \o <<"=">> \o Str(exp_unix)

\* txt_value = f"owner={owner} exp={exp_unix}"
FormatTxt(owner, exp_unix) ==
  OWNER_KEY \o <<"=">> \o owner \o <<" ">> \o EXP_KEY \o <<"=">> \o Str(exp_unix)

\* txt.replace('"', '')
RemoveQuotes(s) == SelectSeq(s, LAMBDA c : c # "\"")

IsSpace(c) == c \in {" ", "\t", "\n"}

\* str.split(): split on runs of whitespace, no empty tokens
RECURSIVE Split(_, _, _)
Split(s, cur, acc) ==
  IF s = <<>> THEN (IF cur = <<>> THEN acc ELSE Append(acc, cur))
  ELSE IF IsSpace(Head(s))
       THEN Split(Tail(s), <<>>, IF cur = <<>> THEN acc ELSE Append(acc, cur))
       ELSE Split(Tail(s), Append(cur, Head(s)), acc)

HasEq(part) == \E i \in 1..Len(part) : part[i] = "="

EqPos(part) ==
  CHOOSE i \in 1..Len(part) : part[i] = "=" /\ \A j \in 1..(i - 1) : part[j] # "="

\* dicts are functions from keys to values
EmptyDict == [k \in {} |-> <<>>]

Put(d, k, v) == [x \in (DOMAIN d) \cup {k} |-> IF x = k THEN v ELSE d[x]]

Get(d, k, default) == IF k \in DOMAIN d THEN d[k] ELSE default

RECURSIVE ParseParts(_, _)
ParseParts(parts, result) ==
  IF parts = <<>> THEN result
  ELSE LET part == Head(parts) IN
       ParseParts(Tail(parts),
                  IF HasEq(part)
                  THEN Put(result, SubSeq(part, 1, EqPos(part) - 1),
                                   SubSeq(part, EqPos(part) + 1, Len(part)))
                  ELSE result)

parse_txt(txt) ==
  IF txt = None \/ txt = <<>> THEN EmptyDict
  ELSE ParseParts(Split(RemoveQuotes(txt), <<>>, <<>>), EmptyDict)

\* int(s) accepts an optional sign followed by decimal digits
IsIntLiteral(s) ==
  LET body == IF s # <<>> /\ Head(s) \in {"+", "-"} THEN Tail(s) ELSE s
  IN  body # <<>> /\ \A i \in 1..Len(body) : IsDigit(body[i])

RECURSIVE IntNat(_)
IntNat(s) == IF s = <<>> THEN 0 ELSE 10 * IntNat(SubSeq(s, 1, Len(s) - 1)) + DigitVal(s[Len(s)])

IntOf(s) ==
  IF Head(s) = "-" THEN 0 - IntNat(Tail(s))
  ELSE IF Head(s) = "+" THEN IntNat(Tail(s)) ELSE IntNat(s)

\* current_owner = txt_data.get('owner')
OwnerOf(txt) == Get(parse_txt(txt), OWNER_KEY, None)

\* txt_data.get('exp') is truthy
ExpTruthy(txt) == Get(parse_txt(txt), EXP_KEY, None) \notin {None, <<>>}

\* int(txt_data.get('exp', '0')) raises ValueError
ExpRaises(txt) == ExpTruthy(txt) /\ ~IsIntLiteral(Get(parse_txt(txt), EXP_KEY, None))

\* exp_unix = int(txt_data.get('exp', '0')) if txt_data.get('exp') else 0
ExpOf(txt) == IF ExpTruthy(txt) THEN IntOf(Get(parse_txt(txt), EXP_KEY, None)) ELSE 0

\* ------------------------------------------------- failover controller state
VARIABLES
  now,                   \* now_unix(): wall clock, whole seconds
  provider,              \* cfg.provider: "dry-run" (one write) or "infoblox" (A then TXT)
  recA,                  \* published A record (NoIp when absent)
  recTXT,                \* published TXT record (None when absent)
  inflight,              \* per writer: the set_records call in progress
  pcP,                   \* primary loop: "run" | "stopped"
  nextP,                 \* time of the primary loop's next tick
  pcD,                   \* DR loop: "run" | "crashed"
  nextD,                 \* time of the DR loop's next tick
  consecutive_failures,  \* heartbeat_dr local
  adminLeft,             \* admin commands still to be issued
  \* history variables
  drTick,                \* what the DR loop saw and did in this second's tick
  lastCommit,            \* shape of the latest provider commit
  lastPrimaryOK,         \* time of the primary loop's latest successful set_records
  pExpLast,              \* exp of the primary loop's latest successful write
  pExpPrev,              \* exp of its successful write before that
  sinceOK                \* what happened since lastPrimaryOK

ctlVars == <<now, provider, recA, recTXT, inflight, pcP, nextP, pcD, nextD,
             consecutive_failures, adminLeft, drTick, lastCommit,
             lastPrimaryOK, pExpLast, pExpPrev, sinceOK>>

\* the reconcilers (ch_sync.py, vm_sync.py)
VARIABLES
  cfg,                   \* Config: which reconciler, ROLE, AUTO_CREATE_TABLES
  state,                 \* SyncState, as saved to the state file after a cycle
  local_tables,          \* tables that exist in the local ClickHouse
  localData,             \* local datastore: rows/samples per unit
  remoteData,            \* remote datastore: rows/samples per unit
  \* history variables
  cleanRun,              \* length of the latest run of good cycles, counted
                         \* up to failback_clean_checks
  lastCycle              \* what the latest cycle saw, sent and issued

syncVars == <<cfg, state, local_tables, localData, remoteData, cleanRun,
              lastCycle>>

\* the ownership followers (otel_watcher*.py), one per site
VARIABLES
  adapter,               \* which watcher runs: "subprocess" | "k8s" | "docker"
  zoneA,                 \* the A record the followers resolve
  fol,                   \* per site: last_state, the collector object, the workload
  \* history variable
  folTick                \* what the latest follower tick saw and called

\* the subprocess follower's exit on SIGINT / SIGTERM
VARIABLES folDown

followVars == <<adapter, zoneA, fol, folTick, folDown>>

\* the reconciler's state file and main loop
VARIABLES stateFile, savePc, fileRead

\* main()'s shutdown flag, and where the loop was when the signal arrived
VARIABLES shutdown, sig

saveVars == <<stateFile, savePc, fileRead, shutdown, sig>>

\* one call of a function of the programs: its arguments and its result
VARIABLES calc

\* a MetricsHealthChecker (last_value, stale_checks) and the last check() call
VARIABLES checker, lastCheck

probeVars == <<checker, lastCheck>>

auxVars == <<calc, probeVars>>

vars == <<ctlVars, syncVars, followVars, saveVars, auxVars>>

Writers == {"primary", "dr", "admin"}

Providers == {"dry-run", "infoblox"}

Idle == [stage |-> "idle", ip |-> NoIp, owner |-> None, exp |-> 0,
         cmd |-> "none", overlapped |-> FALSE]

Call(ip, owner, exp_unix, cmd) ==
  [stage |-> "call", ip |-> ip, owner |-> owner, exp |-> exp_unix,
   cmd |-> cmd, overlapped |-> FALSE]

\* now_unix()
now_unix == now

LeaseExpSwapped(t) == lease_ttl - t

LeaseExpDoubled(t) == t + 2 * lease_ttl

\* exp = now_unix() + cfg.lease_ttl
LeaseExp(t) == t + lease_ttl

CountFailuresNoReset(primary_healthy, n) == IF primary_healthy THEN n ELSE n + 1

\* if primary_healthy: consecutive_failures = 0
\* else: consecutive_failures += 1
CountFailures(primary_healthy, n) == IF primary_healthy THEN 0 ELSE n + 1

ThresholdReachedEarly(f) == f + 1 >= fail_threshold

\* if consecutive_failures >= cfg.fail_threshold
ThresholdReached(f) == f >= fail_threshold

LeaseExpiredInclusive(exp_unix, t) == exp_unix <= t

\* elif exp_unix < now_unix()
LeaseExpired(exp_unix, t) == exp_unix < t

\* provider.set_records(cfg.primary_ip, 'primary', exp) of the primary loop
PrimaryCall(t) == Call(primary_ip, PRIMARY, LeaseExp(t), "heartbeat_primary")

\* provider.set_records(cfg.dr_ip, 'dr', exp) of the DR renewal
RenewCall(t) == Call(dr_ip, DR, LeaseExp(t), "renew")

PromoteCallWrongIp(t, cmd) == Call(primary_ip, DR, LeaseExp(t), cmd)

\* promote_to_dr
PromoteCall(t, cmd) == Call(dr_ip, DR, LeaseExp(t), cmd)

\* init_dns
InitCall(t) == Call(primary_ip, PRIMARY, LeaseExp(t), "init")

\* failback_to_primary
FailbackCall(t) == Call(primary_ip, PRIMARY, LeaseExp(t), "failback")

\* zone content a controller may find at start
MalformedTxts ==
  { <<"j","u","n","k">>,
    OWNER_KEY \o <<"=">> \o PRIMARY \o <<" ">> \o EXP_KEY \o <<"=","x">> }

InitialZones ==
  { <<NoIp, None>>, <<primary_ip, FormatTxt(PRIMARY, LeaseExp(1))>> }
    \cup { <<primary_ip, m>> : m \in MalformedTxts }

NoTick == [at |-> 0, fails |-> 0, read |-> FALSE, txt |-> None,
           wrA |-> NoIp, wrTXT |-> None, done |-> TRUE, raised |-> FALSE,
           dr_owned |-> FALSE]

\* failed_probes: the DR loop's health probes that failed in a row
FreshSince == [clean |-> FALSE, promoted |-> FALSE, failed_probes |-> 0]

\* ------------------------------------------------- reconciler: data
Sites == {"primary", "dr"}

NoSite == "None"               \* get_active_site(): no or unexpected answer

Variants == {"ch_sync", "vm_sync"}

TableT == "db.t"               \* the one replicated MergeTree table

\* the partitions of the table / the time buckets of the query window
Units == {1, 2}

\* rows one unit holds at most: an insert after a failed drop doubles them
StoreCap == 2 * MaxRows

NoData == [u \in Units |-> 0]  \* {}: a dict without entries

NoError == "None"

\* SyncState(): the dataclass defaults
SyncState0 ==
  [consecutive_clean |-> 0, failback_ready |-> FALSE, active_site |-> NoSite,
   tables_with_gaps |-> 0, gaps_detected |-> 0, new_tables_detected |-> {},
   last_error |-> NoError]

\* before the first cycle
NoCycle ==
  [kind |-> "none", gaps |-> FALSE, active |-> NoSite, was_ready |-> FALSE,
   was_clean |-> 0, notes |-> {}, ops |-> {}, seen_ok |-> FALSE, units |-> {},
   was_missing |-> {}]

Cfg0 == [variant |-> "ch_sync", role |-> "primary", auto_create_tables |-> FALSE]

\* no reconciler runs next to the failover controller
SyncParked ==
  /\ cfg = Cfg0
  /\ state = SyncState0
  /\ local_tables = {}
  /\ localData = NoData
  /\ remoteData = NoData
  /\ cleanRun = 0
  /\ lastCycle = NoCycle

\* ------------------------------------------------- followers: data
Adapters == {"subprocess", "k8s", "docker"}

\* last_state = None
NoState == "None"

\* MY_IP of the follower of a site
MY_IP(site) == IF site = "primary" THEN primary_ip ELSE dr_ip

\* OTELCollector(): no process, running = False; the workload is down.
\* alive is the state of the workload self.process refers to (or of the
\* container, the deployment); orphans counts the live processes the
\* object started and holds no handle of any more
Collector0 ==
  [running |-> FALSE, process |-> FALSE, alive |-> FALSE, orphans |-> 0]

Follower0 == [last_state |-> NoState, collector |-> Collector0]

\* before the first tick
NoFolTick ==
  [site |-> "none", dns_failed |-> FALSE, should |-> FALSE, prev |-> NoState,
   was_alive |-> FALSE, activate |-> 0, deactivate |-> 0, launches |-> 0]

\* no follower runs next to the failover controller or a reconciler
\* the follower runs: no shutdown signal arrived
NoDown == [exited |-> FALSE, at |-> "none", was_alive |-> FALSE,
           graceful |-> TRUE, signals |-> {}]

FollowParked ==
  /\ adapter = "subprocess"
  /\ zoneA = NoIp
  /\ fol = [site \in Sites |-> Follower0]
  /\ folTick = NoFolTick
  /\ folDown = [site \in Sites |-> NoDown]

\* ------------------------------------------------- the state file
\* cfg.state_file before the first save_state()
NoFile == [doc |-> SyncState0, part |-> "missing"]

NoRead == [doc |-> SyncState0, part |-> "none", during |-> "none"]

\* no signal arrived
NoSig == [at |-> "none", finished |-> FALSE, saved |-> FALSE, cycled |-> FALSE]

\* the main loop is not looked at
SaveParked ==
  /\ stateFile = NoFile
  /\ savePc = "loop"
  /\ fileRead = NoRead
  /\ shutdown = FALSE
  /\ sig = NoSig

\* ------------------------------------------------- single calls
NoCall == [fn |-> "none"]

\* the metric was never read
NoValue == -1

\* __init__: last_value = None, stale_checks = 0
Checker0 == [last_value |-> NoValue, stale_checks |-> 0]

NoCheck == [kind |-> "none", previous |-> NoValue, current |-> NoValue,
            healthy |-> TRUE, run |-> 0, progressed |-> FALSE,
            reads_lease |-> FALSE]

\* no function is called on its own, and no probe runs
AuxParked ==
  /\ calc = NoCall
  /\ checker = Checker0
  /\ lastCheck = NoCheck

Init ==
  /\ now = 1
  /\ provider \in Providers
  /\ \E z \in InitialZones : recA = z[1] /\ recTXT = z[2]
  /\ inflight = [w \in Writers |-> Idle]
  /\ pcP = "run"
  /\ nextP = 1
  /\ pcD = "run"
  /\ nextD \in 1..update_interval
  /\ consecutive_failures = 0
  /\ adminLeft = MaxAdmin
  /\ drTick = NoTick
  /\ lastCommit = "none"
  /\ lastPrimaryOK = 0
  /\ pExpLast = 0
  /\ pExpPrev = 0
  /\ sinceOK = FreshSince
  /\ SyncParked
  /\ FollowParked
  /\ SaveParked
  /\ AuxParked

\* ------------------------------------------------------------- the clock
\* time.sleep(cfg.update_interval): a loop runs its tick when its sleep ends;
\* provider calls take no time of their own
Tick ==
  /\ now < MaxTime
  /\ \A w \in Writers : inflight[w].stage = "idle"
  /\ pcP = "run" => nextP > now
  /\ pcD = "run" => nextD > now
  /\ now' = now + 1
  /\ drTick' = NoTick
  /\ UNCHANGED <<provider, recA, recTXT, inflight, pcP, nextP, pcD, nextD,
                 consecutive_failures, adminLeft, lastCommit,
                 lastPrimaryOK, pExpLast, pExpPrev, sinceOK>>
  /\ UNCHANGED <<syncVars, followVars, saveVars, auxVars>>

\* ---------------------------------------------------------- primary loop
heartbeat_primary ==
  /\ pcP = "run" /\ nextP <= now /\ inflight["primary"].stage = "idle"
  /\ inflight' = [inflight EXCEPT !["primary"] = PrimaryCall(now_unix)]
  /\ UNCHANGED <<now, provider, recA, recTXT, pcP, nextP, pcD, nextD,
                 consecutive_failures, adminLeft, drTick, lastCommit,
                 lastPrimaryOK, pExpLast, pExpPrev, sinceOK>>
  /\ UNCHANGED <<syncVars, followVars, saveVars, auxVars>>

\* the primary site goes down between two ticks
PrimaryStop ==
  /\ pcP = "run" /\ inflight["primary"].stage = "idle"
  /\ pcP' = "stopped"
  /\ UNCHANGED <<now, provider, recA, recTXT, inflight, nextP, pcD, nextD,
                 consecutive_failures, adminLeft, drTick, lastCommit,
                 lastPrimaryOK, pExpLast, pExpPrev, sinceOK>>
  /\ UNCHANGED <<syncVars, followVars, saveVars, auxVars>>

\* --------------------------------------------------------------- DR loop
\* provider.get_records(): DryRunProvider returns the file's content or
\* raises; the REST providers swallow a failed query and return None
GetOutcomes ==
  IF provider = "dry-run"
  THEN {[raises |-> FALSE, TXT |-> recTXT], [raises |-> TRUE, TXT |-> None]}
  ELSE {[raises |-> FALSE, TXT |-> recTXT], [raises |-> FALSE, TXT |-> None]}

\* the branch heartbeat_dr takes on the lease it read
DrDecision(txt, t) ==
  IF OwnerOf(txt) = DR THEN "renew"
  ELSE IF LeaseExpired(ExpOf(txt), t) THEN "promote"
  ELSE "wait"

heartbeat_dr ==
  /\ pcD = "run" /\ nextD <= now /\ inflight["dr"].stage = "idle"
  /\ \E primary_healthy \in BOOLEAN :
       LET f == CountFailures(primary_healthy, consecutive_failures)
           base == [NoTick EXCEPT !.at = now, !.fails = f,
                                  !.dr_owned = OwnerOf(recTXT) = DR]
           probed == [sinceOK EXCEPT !.failed_probes =
                        IF primary_healthy THEN 0 ELSE @ + 1]
       IN
       /\ consecutive_failures' = f
       /\ IF primary_healthy \/ ~ThresholdReached(f)
          THEN /\ nextD' = now + update_interval
               /\ drTick' = base
               /\ sinceOK' = IF primary_healthy
                             THEN [probed EXCEPT !.clean = FALSE] ELSE probed
               /\ UNCHANGED <<pcD, inflight>>
          ELSE \E r \in GetOutcomes :
               IF r.raises \/ ExpRaises(r.TXT)
               THEN \* uncaught exception: the process exits
                    /\ pcD' = "crashed"
                    /\ drTick' = [base EXCEPT !.read = ~r.raises, !.txt = r.TXT,
                                              !.raised = TRUE]
                    /\ sinceOK' = [probed EXCEPT !.clean = FALSE]
                    /\ UNCHANGED <<nextD, inflight>>
               ELSE LET d == DrDecision(r.TXT, now_unix) IN
                    /\ drTick' = [base EXCEPT !.read = TRUE, !.txt = r.TXT,
                                              !.done = (d = "wait")]
                    /\ sinceOK' = IF r.TXT # recTXT
                                  THEN [probed EXCEPT !.clean = FALSE] ELSE probed
                    /\ inflight' = [inflight EXCEPT !["dr"] =
                                      IF d = "renew" THEN RenewCall(now_unix)
                                      ELSE IF d = "promote"
                                           THEN PromoteCall(now_unix, "promote_to_dr")
                                           ELSE Idle]
                    /\ nextD' = IF d = "wait" THEN now + update_interval ELSE nextD
                    /\ UNCHANGED pcD
  /\ UNCHANGED <<now, provider, recA, recTXT, pcP, nextP, adminLeft,
                 lastCommit, lastPrimaryOK, pExpLast, pExpPrev>>
  /\ UNCHANGED <<syncVars, followVars, saveVars, auxVars>>

\* ------------------------------------------------------- admin commands
AdminIdle == inflight["admin"].stage = "idle" /\ adminLeft > 0

AdminFrame ==
  /\ adminLeft' = adminLeft - 1
  /\ UNCHANGED <<now, provider, recA, recTXT, pcP, nextP, pcD, nextD,
              consecutive_failures, drTick, lastCommit,
              lastPrimaryOK, pExpLast, pExpPrev, sinceOK>>
  /\ UNCHANGED <<syncVars, followVars, saveVars, auxVars>>

init_dns ==
  /\ AdminIdle
  /\ inflight' = [inflight EXCEPT !["admin"] = InitCall(now_unix)]
  /\ AdminFrame

promote_to_dr ==
  /\ AdminIdle
  /\ inflight' = [inflight EXCEPT !["admin"] = PromoteCall(now_unix, "promote")]
  /\ AdminFrame

failback_to_primary ==
  /\ AdminIdle
  /\ inflight' = [inflight EXCEPT !["admin"] = FailbackCall(now_unix)]
  /\ AdminFrame

\* ----------------------------------------------------- provider.set_records
\* a commit by w falls between the A and TXT commits of every call at "txt"
AfterCommit(w, mine) ==
  [v \in Writers |->
     IF v = w THEN mine
     ELSE IF inflight[v].stage = "txt"
          THEN [inflight[v] EXCEPT !.overlapped = TRUE]
          ELSE inflight[v]]

\* set_records returned: the caller's next statement
Returned(w, c) ==
  /\ lastCommit' = IF c.overlapped THEN "final_overlapped" ELSE "final_clean"
  /\ nextP' = IF w = "primary" THEN now + update_interval ELSE nextP
  /\ nextD' = IF w = "dr" THEN now + update_interval ELSE nextD
  /\ lastPrimaryOK' = IF w = "primary" THEN now ELSE lastPrimaryOK
  /\ pExpLast' = IF w = "primary" THEN c.exp ELSE pExpLast
  /\ pExpPrev' = IF w = "primary" THEN pExpLast ELSE pExpPrev
  /\ sinceOK' = IF w = "primary"
                THEN [sinceOK EXCEPT !.clean = TRUE, !.promoted = FALSE]
                ELSE IF w = "dr" THEN [sinceOK EXCEPT !.promoted = TRUE]
                ELSE [sinceOK EXCEPT !.clean = FALSE]
  /\ UNCHANGED <<now, provider, pcP, pcD, consecutive_failures, adminLeft>>
  /\ UNCHANGED <<syncVars, followVars, saveVars, auxVars>>

\* DryRunProvider.set_records: both records in one write
SetRecordsAtomic(w) ==
  LET c == inflight[w] IN
  /\ provider = "dry-run" /\ c.stage = "call"
  /\ recA' = c.ip
  /\ recTXT' = FormatTxt(c.owner, c.exp)
  /\ inflight' = AfterCommit(w, Idle)
  /\ drTick' = IF w = "dr"
               THEN [drTick EXCEPT !.wrA = c.ip, !.wrTXT = FormatTxt(c.owner, c.exp),
                                   !.done = TRUE]
               ELSE drTick
  /\ Returned(w, c)

\* InfobloxProvider.set_records, first request: the A record
SetRecordsA(w) ==
  LET c == inflight[w] IN
  /\ provider = "infoblox" /\ c.stage = "call"
  /\ recA' = c.ip
  /\ inflight' = AfterCommit(w, [c EXCEPT !.stage = "txt"])
  /\ drTick' = IF w = "dr" THEN [drTick EXCEPT !.wrA = c.ip] ELSE drTick
  /\ lastCommit' = "partial"
  /\ UNCHANGED <<now, provider, recTXT, pcP, nextP, pcD, nextD,
                 consecutive_failures, adminLeft, lastPrimaryOK, pExpLast, pExpPrev, sinceOK>>
  /\ UNCHANGED <<syncVars, followVars, saveVars, auxVars>>

\* InfobloxProvider.set_records, second request: the TXT record
SetRecordsTXT(w) ==
  LET c == inflight[w] IN
  /\ provider = "infoblox" /\ c.stage = "txt"
  /\ recTXT' = FormatTxt(c.owner, c.exp)
  /\ inflight' = AfterCommit(w, Idle)
  /\ drTick' = IF w = "dr"
               THEN [drTick EXCEPT !.wrTXT = FormatTxt(c.owner, c.exp), !.done = TRUE]
               ELSE drTick
  /\ UNCHANGED recA
  /\ Returned(w, c)

\* set_records raises (raise_for_status, OSError): the primary loop catches
\* and sleeps, an admin command exits, heartbeat_dr has no handler
SetRecordsRaise(w) ==
  LET c == inflight[w] IN
  /\ c.stage \in {"call", "txt"}
  /\ inflight' = [inflight EXCEPT ![w] = Idle]
  /\ nextP' = IF w = "primary" THEN now + update_interval ELSE nextP
  /\ pcD' = IF w = "dr" THEN "crashed" ELSE pcD
  /\ drTick' = IF w = "dr" THEN [drTick EXCEPT !.raised = TRUE, !.done = TRUE]
               ELSE drTick
  /\ sinceOK' = IF w = "dr" THEN [sinceOK EXCEPT !.clean = FALSE] ELSE sinceOK
  /\ UNCHANGED <<now, provider, recA, recTXT, pcP, nextD, consecutive_failures,
                 adminLeft, lastCommit, lastPrimaryOK,
                 pExpLast, pExpPrev>>
  /\ UNCHANGED <<syncVars, followVars, saveVars, auxVars>>

Next ==
  \/ Tick
  \/ heartbeat_primary
  \/ PrimaryStop
  \/ heartbeat_dr
  \/ init_dns
  \/ promote_to_dr
  \/ failback_to_primary
  \/ \E w \in Writers : SetRecordsAtomic(w)
  \/ \E w \in Writers : SetRecordsA(w)
  \/ \E w \in Writers : SetRecordsTXT(w)
  \/ \E w \in Writers : SetRecordsRaise(w)

Spec == Init /\ [][Next]_vars

\* ====================================================== the reconcilers
\* the failover controller is not part of a reconciler run
CtlParked ==
  /\ now = 0
  /\ provider = "dry-run"
  /\ recA = NoIp
  /\ recTXT = None
  /\ inflight = [w \in Writers |-> Idle]
  /\ pcP = "stopped"
  /\ nextP = 0
  /\ pcD = "crashed"
  /\ nextD = 0
  /\ consecutive_failures = 0
  /\ adminLeft = 0
  /\ drTick = NoTick
  /\ lastCommit = "none"
  /\ lastPrimaryOK = 0
  /\ pExpLast = 0
  /\ pExpPrev = 0
  /\ sinceOK = FreshSince

\* main(): Config.from_env(), load_state() without a state file
InitSync ==
  /\ CtlParked
  /\ FollowParked
  /\ SaveParked
  /\ AuxParked
  /\ cfg \in {c \in [variant : Variants, role : Sites, auto_create_tables : BOOLEAN] :
                c.variant = "vm_sync" => ~c.auto_create_tables}
  /\ state = SyncState0
  /\ local_tables \in (IF cfg.variant = "ch_sync" THEN {{}, {TableT}} ELSE {{}})
  /\ localData = NoData
  /\ remoteData = NoData
  /\ cleanRun = 0
  /\ lastCycle = NoCycle

\* collectors write into the local datastore
IngestLocal ==
  /\ cfg.variant = "ch_sync" => TableT \in local_tables
  /\ \E u \in Units :
       /\ localData[u] < MaxRows
       /\ localData' = [localData EXCEPT ![u] = @ + 1]
  /\ UNCHANGED <<ctlVars, auxVars, followVars, saveVars, cfg, state, local_tables, remoteData,
                 cleanRun, lastCycle>>

\* collectors write into the remote datastore
IngestRemote ==
  /\ \E u \in Units :
       /\ remoteData[u] < MaxRows
       /\ remoteData' = [remoteData EXCEPT ![u] = @ + 1]
  /\ UNCHANGED <<ctlVars, auxVars, followVars, saveVars, cfg, state, local_tables, localData,
                 cleanRun, lastCycle>>

\* the early returns of run_sync_check: the last_error they leave
SkipReason(local_healthy, remote_healthy, active_site) ==
  IF ~local_healthy THEN "Local unhealthy"
  ELSE IF ~remote_healthy THEN "Remote unhealthy"
  ELSE IF active_site = NoSite THEN "DNS lookup failed"
  ELSE NoError

SkippedResets(s, why) ==
  [s EXCEPT !.last_error = why, !.consecutive_clean = 0, !.failback_ready = FALSE]

\* state.last_error = "..."; return state
Skipped(s, why) == [s EXCEPT !.last_error = why]

\* a cycle that compared the datastores, found no gap, remote site active
GoodCycle(kind, gaps, active_site) ==
  kind = "checked" /\ ~gaps /\ active_site \in Sites \ {cfg.role}

\* run_sync_check returns, main() saves the state
EndCycle(s, kind, gaps, active_site, notes, ops, seen_ok, units) ==
  /\ state' = s
  /\ lastCycle' = [kind |-> kind, gaps |-> gaps, active |-> active_site,
                   was_ready |-> state.failback_ready,
                   was_clean |-> state.consecutive_clean,
                   notes |-> notes, ops |-> ops, seen_ok |-> seen_ok,
                   units |-> units,
                   was_missing |-> {p \in lastCycle.units : localData[p] = 0}]
  /\ cleanRun' = IF ~GoodCycle(kind, gaps, active_site) THEN 0
                 ELSE IF cleanRun < failback_clean_checks THEN cleanRun + 1
                 ELSE cleanRun

\* ------------------------------------------------------------- ch_sync
\* partitions the source has and the destination holds fewer rows of
find_partition_gaps(source_partitions, dest_partitions) ==
  {p \in Units : source_partitions[p] > 0
                 /\ dest_partitions[p] < source_partitions[p]}

\* rows of the local partition after DROP PARTITION, INSERT ... SELECT remote
sync_partition(local_rows, remote_rows, o) ==
  (IF o.drop THEN 0 ELSE local_rows) + (IF o.insert THEN remote_rows ELSE 0)

ChAccountGapBlind(s, total_partitions_synced, tables_with_gaps, new_tables_detected) ==
  IF total_partitions_synced > 0
  THEN [s EXCEPT !.consecutive_clean = 0]
  ELSE IF new_tables_detected = {}
  THEN LET c == s.consecutive_clean + 1 IN
       [s EXCEPT !.consecutive_clean = c, !.last_error = NoError,
                 !.failback_ready = IF c >= failback_clean_checks THEN TRUE ELSE @]
  ELSE [s EXCEPT !.consecutive_clean = 0, !.failback_ready = FALSE]

\* ch_sync: the counters at the end of a cycle that enumerated the tables
ChAccount(s, total_partitions_synced, tables_with_gaps, new_tables_detected) ==
  IF total_partitions_synced > 0
  THEN [s EXCEPT !.consecutive_clean = 0]
  ELSE IF tables_with_gaps = 0 /\ new_tables_detected = {}
  THEN LET c == s.consecutive_clean + 1 IN
       [s EXCEPT !.consecutive_clean = c, !.last_error = NoError,
                 !.failback_ready = IF c >= failback_clean_checks THEN TRUE ELSE @]
  ELSE [s EXCEPT !.consecutive_clean = 0, !.failback_ready = FALSE]

\* ch_sync: the notify() calls of a cycle that enumerated the tables
ChNotes(s, total_partitions_synced, tables_with_gaps, new_tables_detected) ==
  (IF new_tables_detected # {} THEN {"new_tables"} ELSE {})
  \cup
  (IF total_partitions_synced > 0 THEN {"sync_complete"}
   ELSE IF tables_with_gaps = 0 /\ new_tables_detected = {}
   THEN IF s.consecutive_clean + 1 >= failback_clean_checks /\ ~s.failback_ready
        THEN {"failback_ready"} ELSE {}
   ELSE {"gap_detected"})

\* ch_sync: the requests a cycle that enumerated the tables sends
ChOps(missing, gaps) ==
  {[op |-> "enumerate", store |-> "local"], [op |-> "enumerate", store |-> "remote"]}
  \cup (IF cfg.auto_create_tables /\ missing # {}
        THEN {[op |-> "create", store |-> "local"]} ELSE {})
  \cup (IF gaps # {}
        THEN {[op |-> "drop", store |-> "local"], [op |-> "insert", store |-> "local"]}
        ELSE {})

\* create_table_from_remote() is called for a missing table when
\* auto_create_tables is set
CreateOutcomes(missing) ==
  IF cfg.auto_create_tables /\ missing # {} THEN BOOLEAN ELSE {FALSE}

\* get_partition_counts() is called for the tables of both sides
CountOutcomes(tables_to_check) ==
  IF tables_to_check # {} THEN BOOLEAN ELSE {FALSE}

\* run_sync_check(). A query that fails returns []: when the remote listing
\* is empty nothing is missing and nothing is compared, and when the remote
\* partition counts are empty nothing is a gap, so the outcome of the local
\* query is only drawn when the remote one answered; the outcome of the DROP
\* is only drawn for a partition that holds rows
ch_run_sync_check ==
  /\ cfg.variant = "ch_sync"
  /\ state.consecutive_clean < MaxClean
  /\ \E local_healthy, remote_healthy \in BOOLEAN, active_site \in Sites \cup {NoSite} :
       LET s0 == [state EXCEPT !.tables_with_gaps = 0, !.new_tables_detected = {}]
           why == SkipReason(local_healthy, remote_healthy, active_site)
       IN
       IF why # NoError
       THEN /\ EndCycle(Skipped(s0, why), "skipped", FALSE, NoSite,
                        {}, {}, FALSE, {})
            /\ UNCHANGED <<local_tables, localData>>
       ELSE IF active_site = cfg.role
       THEN /\ EndCycle([s0 EXCEPT !.active_site = active_site,
                                   !.consecutive_clean = @ + 1,
                                   !.last_error = NoError],
                        "own_active", FALSE, active_site, {}, {},
                        FALSE, {})
            /\ UNCHANGED <<local_tables, localData>>
       ELSE \E rt_ok \in BOOLEAN :
            \E lt_ok \in (IF rt_ok THEN BOOLEAN ELSE {FALSE}) :
            LET local_seen == IF lt_ok THEN local_tables ELSE {}
                remote_tables == IF rt_ok THEN {TableT} ELSE {}
                missing == remote_tables \ local_seen
            IN
            \E create_ok \in CreateOutcomes(missing) :
            LET tables_created ==
                  {t \in missing : cfg.auto_create_tables /\ create_ok
                                   /\ t \notin local_tables}
                new_tables_detected == missing \ tables_created
                tables_to_check == (local_seen \cup tables_created) \cap remote_tables
            IN
            \E rp_ok \in CountOutcomes(tables_to_check) :
            \E lp_ok \in (IF rp_ok THEN BOOLEAN ELSE {FALSE}) :
            LET local_partitions == IF lp_ok THEN localData ELSE NoData
                remote_partitions == IF rp_ok THEN remoteData ELSE NoData
                gaps == IF tables_to_check = {} THEN {}
                        ELSE find_partition_gaps(remote_partitions, local_partitions)
                tables_with_gaps == IF gaps = {} THEN 0 ELSE 1
                s1 == [s0 EXCEPT !.active_site = active_site,
                                 !.new_tables_detected = new_tables_detected,
                                 !.tables_with_gaps = tables_with_gaps]
            IN \E out \in {o \in [gaps -> [drop : BOOLEAN, insert : BOOLEAN]] :
                             \A p \in gaps : localData[p] = 0 => o[p].drop} :
               LET synced == {p \in gaps : out[p].insert}
                   after == [p \in Units |->
                               IF p \in gaps
                               THEN sync_partition(localData[p], remoteData[p], out[p])
                               ELSE localData[p]]
               IN /\ \A p \in Units : after[p] <= StoreCap
                  /\ localData' = after
                  /\ local_tables' = local_tables \cup tables_created
                  /\ EndCycle(ChAccount(s1, Cardinality(synced), tables_with_gaps,
                                        new_tables_detected),
                              "checked", gaps # {}, active_site,
                              ChNotes(s1, Cardinality(synced), tables_with_gaps,
                                      new_tables_detected),
                              ChOps(missing, gaps),
                              /\ lt_ok /\ rt_ok /\ tables_to_check # {}
                              /\ lp_ok /\ rp_ok,
                              gaps)
  /\ UNCHANGED <<ctlVars, auxVars, followVars, saveVars, cfg, remoteData>>

\* ------------------------------------------------------------- vm_sync
\* buckets where dest/source < gap_threshold (0.9)
find_gaps(source_counts, dest_counts) ==
  {ts \in Units : source_counts[ts] # 0
                  /\ 10 * dest_counts[ts] < 9 * source_counts[ts]}

determine_sync_direction_swapped(active_site) ==
  IF active_site = cfg.role
  THEN [source |-> "remote", dest |-> "local"]
  ELSE [source |-> "local", dest |-> "remote"]

\* the active site is the source
determine_sync_direction(active_site) ==
  IF active_site = cfg.role
  THEN [source |-> "local", dest |-> "remote"]
  ELSE [source |-> "remote", dest |-> "local"]

\* samples of a bucket of the destination after export and import
sync_range(source_samples, dest_samples) ==
  IF dest_samples >= source_samples THEN dest_samples ELSE source_samples

\* vm_sync: the counters at the end of a cycle that compared the counts
VmAccount(s, ngaps) ==
  IF ngaps = 0
  THEN LET c == s.consecutive_clean + 1 IN
       [s EXCEPT !.consecutive_clean = c, !.gaps_detected = 0,
                 !.last_error = NoError,
                 !.failback_ready = IF c >= failback_clean_checks THEN TRUE ELSE @]
  ELSE [s EXCEPT !.consecutive_clean = 0, !.failback_ready = FALSE,
                 !.gaps_detected = ngaps, !.last_error = NoError]

\* vm_sync: the notify() calls of a cycle that compared the counts
VmNotes(s, ngaps) ==
  IF ngaps = 0
  THEN IF s.consecutive_clean + 1 >= failback_clean_checks /\ ~s.failback_ready
       THEN {"failback_ready"} ELSE {}
  ELSE {"gap_detected", "sync_complete"}

\* vm_sync: the requests of a cycle that got to the count queries; vm_import
\* is only called with the data of an export that returned some
VmOps(dir, gaps, out) ==
  {[op |-> "enumerate", store |-> "local"], [op |-> "enumerate", store |-> "remote"]}
  \cup (IF gaps # {} THEN {[op |-> "export", store |-> dir.source]} ELSE {})
  \cup (IF \E u \in gaps : out[u] # "export_failed"
        THEN {[op |-> "import", store |-> dir.dest]} ELSE {})

vm_run_sync_check ==
  /\ cfg.variant = "vm_sync"
  /\ state.consecutive_clean < MaxClean
  /\ \E local_healthy, remote_healthy \in BOOLEAN, active_site \in Sites \cup {NoSite} :
       LET why == SkipReason(local_healthy, remote_healthy, active_site) IN
       IF why # NoError
       THEN /\ EndCycle(Skipped(state, why), "skipped", FALSE, NoSite,
                        {}, {}, FALSE, {})
            /\ UNCHANGED <<localData, remoteData>>
       ELSE \E lq_ok, rq_ok \in BOOLEAN :
            LET local_counts == IF lq_ok THEN localData ELSE NoData
                remote_counts == IF rq_ok THEN remoteData ELSE NoData
                s1 == [state EXCEPT !.active_site = active_site]
                dir == determine_sync_direction(active_site)
                source_counts == IF dir.source = "local" THEN local_counts
                                 ELSE remote_counts
                dest_counts == IF dir.dest = "local" THEN local_counts
                               ELSE remote_counts
                gaps == find_gaps(source_counts, dest_counts)
                src == IF dir.source = "local" THEN localData ELSE remoteData
                dst == IF dir.dest = "local" THEN localData ELSE remoteData
            IN IF local_counts = NoData /\ remote_counts = NoData
               THEN /\ EndCycle(s1, "skipped", FALSE, active_site, {}, VmOps(dir, {}, <<>>),
                                FALSE, {})
                    /\ UNCHANGED <<localData, remoteData>>
               ELSE \E out \in [gaps -> {"ok", "export_failed", "import_failed"}] :
                    LET after == [u \in Units |->
                                    IF u \in gaps /\ out[u] = "ok"
                                    THEN sync_range(src[u], dst[u]) ELSE dst[u]]
                    IN /\ EndCycle(VmAccount(s1, Cardinality(gaps)),
                                   "checked", gaps # {}, active_site,
                                   VmNotes(s1, Cardinality(gaps)),
                                   VmOps(dir, gaps, out),
                                   lq_ok /\ rq_ok, gaps)
                       /\ IF dir.dest = "local"
                          THEN localData' = after /\ UNCHANGED remoteData
                          ELSE remoteData' = after /\ UNCHANGED localData
  /\ UNCHANGED <<ctlVars, auxVars, followVars, saveVars, cfg, local_tables>>

NextSync ==
  \/ IngestLocal
  \/ IngestRemote
  \/ ch_run_sync_check
  \/ vm_run_sync_check

SpecSync == InitSync /\ [][NextSync]_vars

\* ======================================================== the followers
\* main(): one watcher per site, the collector object as constructed; a
\* container or deployment may be up already
InitFollow ==
  /\ CtlParked
  /\ SyncParked
  /\ SaveParked
  /\ AuxParked
  /\ adapter \in Adapters
  /\ zoneA \in {primary_ip, dr_ip}
  /\ fol \in [Sites -> {[Follower0 EXCEPT !.collector.alive = a] :
                          a \in (IF adapter = "subprocess" THEN {FALSE} ELSE BOOLEAN)}]
  /\ \E site \in Sites : ~fol[site].collector.alive
  /\ folTick = NoFolTick
  /\ folDown = [site \in Sites |-> NoDown]

\* the failover controllers publish the other site's IP
ZoneChange ==
  /\ zoneA' = IF zoneA = primary_ip THEN dr_ip ELSE primary_ip
  /\ UNCHANGED <<ctlVars, auxVars, syncVars, saveVars, adapter, fol, folTick, folDown>>

\* the collector process exits / the container stops on its own
WorkloadExits ==
  /\ adapter # "k8s"
  /\ \E site \in Sites :
       /\ fol[site].collector.alive
       /\ fol' = [fol EXCEPT ![site].collector.alive = FALSE]
  /\ UNCHANGED <<ctlVars, auxVars, syncVars, saveVars, adapter, zoneA, folTick, folDown>>

\* get_dns_ip(): the A record, or None when the lookup fails
DnsAnswers == {zoneA, NoIp}

DnsFailedNever(current_ip) == FALSE

\* if current_ip is None: ... continue
DnsFailed(current_ip) == current_ip = NoIp

\* str(should_be_active), comparable with last_state = None
B(should_be_active) == IF should_be_active THEN "True" ELSE "False"

Count(called) == IF called THEN 1 ELSE 0

StateChangedAlways(should_be_active, last_state) == TRUE

\* if should_be_active != last_state:
StateChanged(should_be_active, last_state) == B(should_be_active) # last_state

\* the end of a tick: time.sleep(CHECK_INTERVAL)
FolEnd(site, f, current_ip, should_be_active, activate, deactivate, launches) ==
  /\ fol' = [fol EXCEPT ![site] = f]
  /\ folTick' = [site |-> site, dns_failed |-> current_ip = NoIp,
                 should |-> should_be_active, prev |-> fol[site].last_state,
                 was_alive |-> fol[site].collector.alive,
                 activate |-> activate, deactivate |-> deactivate,
                 launches |-> launches]

\* ------------------------------------------------------ otel_watcher.py
\* OTELCollector.is_running(): process is not None and poll() is None
is_running(c) == c.process /\ c.alive

\* OTELCollector.start(): returns at once when self.running is set
start(c, ok) ==
  IF c.running THEN [c |-> c, launched |-> 0]
  ELSE IF ok
  THEN [c |-> [running |-> TRUE, process |-> TRUE, alive |-> TRUE,
               orphans |-> c.orphans + Count(c.alive)],
        launched |-> 1]
  ELSE [c |-> [c EXCEPT !.running = FALSE], launched |-> 1]

stop_forgets(c) ==
  IF ~c.running \/ ~c.process THEN c
  ELSE [Collector0 EXCEPT !.orphans = c.orphans + Count(c.alive)]

\* OTELCollector.stop(): SIGTERM to the process group, SIGKILL after the
\* 10 s wait, wait() again; the exception of a killpg that finds the
\* process gone is logged; finally: process = None, running = False
stop(c) ==
  IF ~c.running \/ ~c.process THEN c
  ELSE [Collector0 EXCEPT !.orphans = c.orphans]

otel_watcher ==
  /\ adapter = "subprocess"
  /\ \E site \in {x \in Sites : ~folDown[x].exited},
        current_ip \in DnsAnswers, ok1, ok2 \in BOOLEAN :
       LET f == fol[site]
           c == f.collector
           should_be_active == current_ip = MY_IP(site)
       IN
       IF DnsFailed(current_ip)
       THEN FolEnd(site, f, current_ip, FALSE, 0, 0, 0)
       ELSE LET call_start == should_be_active /\ ~is_running(c)
                call_stop == ~should_be_active /\ is_running(c)
                r1 == IF call_start THEN start(c, ok1)
                      ELSE [c |-> IF call_stop THEN stop(c) ELSE c, launched |-> 0]
                call_restart == should_be_active /\ ~is_running(r1.c)
                r2 == IF call_restart THEN start(r1.c, ok2)
                      ELSE [c |-> r1.c, launched |-> 0]
            IN FolEnd(site,
                      [last_state |-> B(should_be_active), collector |-> r2.c],
                      current_ip, should_be_active,
                      Count(call_start) + Count(call_restart), Count(call_stop),
                      r1.launched + r2.launched)
  /\ UNCHANGED <<ctlVars, auxVars, syncVars, saveVars, adapter, zoneA, folDown>>

\* where the main thread is when the signal handler runs: between two
\* statements of the loop, or inside collector.start(), after Popen has
\* spawned the child and before self.process and self.running are assigned
ShutdownPoints == {"loop", "start"}

\* the signals stop() sends to the collector's process group: SIGTERM, and
\* SIGKILL when wait(timeout=10) expires; none when it returns at once or
\* the process is gone
stop_signals(c, graceful) ==
  IF ~c.running \/ ~c.process \/ ~c.alive THEN {}
  ELSE IF graceful THEN {"SIGTERM"}
  ELSE {"SIGTERM", "SIGKILL"}

\* shutdown(signum, frame): collector.stop(); sys.exit(0)
shutdown_handler ==
  /\ adapter = "subprocess"
  /\ \E site \in Sites, at \in ShutdownPoints, graceful \in BOOLEAN :
       LET c == fol[site].collector
           spawned == at = "start"
           seen == IF spawned THEN [c EXCEPT !.alive = TRUE] ELSE c
       IN
       /\ ~folDown[site].exited
       /\ spawned => (zoneA = MY_IP(site) /\ ~c.running /\ ~is_running(c))
       /\ fol' = [fol EXCEPT ![site].collector =
                    IF ~c.running \/ ~c.process THEN seen ELSE stop(c)]
       /\ folDown' = [folDown EXCEPT ![site] =
                        [exited |-> TRUE, at |-> at, was_alive |-> seen.alive,
                         graceful |-> graceful,
                         signals |-> stop_signals(c, graceful)]]
  /\ UNCHANGED <<ctlVars, auxVars, syncVars, saveVars, adapter, zoneA, folTick>>

\* -------------------------------------------------- otel_watcher_k8s.py
\* scale_deployment(replicas): the returned bool is not looked at
scale_deployment(c, active, ok) == IF ok THEN [c EXCEPT !.alive = active] ELSE c

otel_watcher_k8s ==
  /\ adapter = "k8s"
  /\ \E site \in Sites, current_ip \in DnsAnswers, ok \in BOOLEAN :
       LET f == fol[site]
           should_be_active == current_ip = MY_IP(site)
           edge == StateChanged(should_be_active, f.last_state)
       IN
       IF DnsFailed(current_ip)
       THEN FolEnd(site, f, current_ip, FALSE, 0, 0, 0)
       ELSE FolEnd(site,
                   [last_state |-> B(should_be_active),
                    collector |-> IF edge
                                  THEN scale_deployment(f.collector, should_be_active, ok)
                                  ELSE f.collector],
                   current_ip, should_be_active,
                   Count(edge /\ should_be_active), Count(edge /\ ~should_be_active),
                   Count(edge /\ should_be_active))
  /\ UNCHANGED <<ctlVars, auxVars, syncVars, saveVars, adapter, zoneA, folDown>>

\* ----------------------------------------------- otel_watcher_docker.py
container_is_running(c) == c.alive

\* start_container(): docker start unless the container runs
start_container(c, ok) ==
  IF container_is_running(c) THEN [c |-> c, launched |-> 0]
  ELSE [c |-> [c EXCEPT !.alive = ok], launched |-> 1]

\* stop_container(): docker stop unless the container is stopped
stop_container(c, ok) ==
  IF ~container_is_running(c) THEN c ELSE [c EXCEPT !.alive = ~ok]

otel_watcher_docker ==
  /\ adapter = "docker"
  /\ \E site \in Sites, current_ip \in DnsAnswers, ok1, ok2 \in BOOLEAN :
       LET f == fol[site]
           c == f.collector
           should_be_active == current_ip = MY_IP(site)
           edge == StateChanged(should_be_active, f.last_state)
       IN
       IF DnsFailed(current_ip)
       THEN FolEnd(site, f, current_ip, FALSE, 0, 0, 0)
       ELSE LET call_start == edge /\ should_be_active
                call_stop == edge /\ ~should_be_active
                r1 == IF call_start THEN start_container(c, ok1)
                      ELSE [c |-> IF call_stop THEN stop_container(c, ok1) ELSE c,
                            launched |-> 0]
                call_restart == should_be_active /\ ~container_is_running(r1.c)
                r2 == IF call_restart THEN start_container(r1.c, ok2)
                      ELSE [c |-> r1.c, launched |-> 0]
            IN FolEnd(site,
                      [last_state |-> B(should_be_active), collector |-> r2.c],
                      current_ip, should_be_active,
                      Count(call_start) + Count(call_restart), Count(call_stop),
                      r1.launched + r2.launched)
  /\ UNCHANGED <<ctlVars, auxVars, syncVars, saveVars, adapter, zoneA, folDown>>

NextFollow ==
  \/ ZoneChange
  \/ WorkloadExits
  \/ otel_watcher
  \/ shutdown_handler
  \/ otel_watcher_k8s
  \/ otel_watcher_docker

SpecFollow == InitFollow /\ [][NextFollow]_vars

\* ============================================ the reconciler's main loop
\* main(): state = load_state(cfg.state_file), then the loop
InitSave ==
  /\ CtlParked
  /\ FollowParked
  /\ cfg \in {[Cfg0 EXCEPT !.variant = v] : v \in Variants}
  /\ state = SyncState0
  /\ local_tables = {}
  /\ localData = NoData
  /\ remoteData = NoData
  /\ cleanRun = 0
  /\ lastCycle = NoCycle
  /\ SaveParked
  /\ AuxParked

\* load_state(): FileNotFoundError and JSONDecodeError give SyncState()
load_state(f) == IF f.part = "complete" THEN f.doc ELSE SyncState0

KeepsRunningAlways(flag) == TRUE

\* while not shutdown:
KeepsRunning(flag) == ~flag

\* the test of the main loop: another cycle, or "shutdown complete"
loop_test ==
  /\ savePc = "loop"
  /\ savePc' = IF KeepsRunning(shutdown) THEN "cycle" ELSE "exited"
  /\ sig' = IF KeepsRunning(shutdown) /\ sig.at # "none"
            THEN [sig EXCEPT !.cycled = TRUE] ELSE sig
  /\ UNCHANGED <<ctlVars, auxVars, syncVars, followVars, stateFile, fileRead,
                 shutdown>>

\* handle_signal (SIGTERM, SIGINT): shutdown = True, and the main thread
\* goes on where it was
handle_signal ==
  /\ savePc \notin {"dead", "exited"}
  /\ shutdown' = TRUE
  /\ sig' = IF sig.at = "none" THEN [sig EXCEPT !.at = savePc] ELSE sig
  /\ UNCHANGED <<ctlVars, auxVars, syncVars, followVars, stateFile, savePc,
                 fileRead>>

\* state = run_sync_check(cfg, state): the accounting of a cycle that
\* compared the datastores and found ngaps gaps, synced of them repaired
run_cycle ==
  /\ savePc = "cycle"
  /\ sig' = IF sig.at = "cycle" THEN [sig EXCEPT !.finished = TRUE] ELSE sig
  /\ \E ngaps \in 0..1, synced \in 0..1 :
       /\ synced <= ngaps
       /\ ngaps = 0 => state.consecutive_clean < MaxClean
       /\ state' = IF cfg.variant = "ch_sync"
                   THEN ChAccount(state, synced, ngaps, {})
                   ELSE VmAccount(state, ngaps)
  /\ savePc' = "save"
  /\ UNCHANGED <<ctlVars, auxVars, followVars, cfg, local_tables, localData, remoteData,
                 cleanRun, lastCycle, stateFile, fileRead, shutdown>>

\* except Exception as e: state.last_error = str(e); save_state(...)
run_cycle_raises ==
  /\ savePc = "cycle"
  /\ sig' = IF sig.at = "cycle" THEN [sig EXCEPT !.finished = TRUE] ELSE sig
  /\ state' = [state EXCEPT !.last_error = "error"]
  /\ savePc' = "save"
  /\ UNCHANGED <<ctlVars, auxVars, followVars, cfg, local_tables, localData, remoteData,
                 cleanRun, lastCycle, stateFile, fileRead, shutdown>>

\* save_state(): open(path, 'w') truncates the file in place
save_open ==
  /\ savePc = "save"
  /\ stateFile' = [doc |-> state, part |-> "empty"]
  /\ savePc' = "opened"
  /\ UNCHANGED <<ctlVars, auxVars, syncVars, followVars, fileRead, shutdown, sig>>

\* save_state(): json.dump writes the document piece by piece; a piece
\* reaches the file when the buffer is flushed
save_dump ==
  /\ savePc = "opened"
  /\ stateFile' = [stateFile EXCEPT !.part = "partial"]
  /\ savePc' = "dumping"
  /\ UNCHANGED <<ctlVars, auxVars, syncVars, followVars, fileRead, shutdown, sig>>

\* save_state(): leaving the with block flushes the rest and closes
save_close ==
  /\ savePc \in {"opened", "dumping"}
  /\ stateFile' = [stateFile EXCEPT !.part = "complete"]
  /\ savePc' = "sleep"
  /\ sig' = IF sig.at # "none" THEN [sig EXCEPT !.saved = TRUE] ELSE sig
  /\ UNCHANGED <<ctlVars, auxVars, syncVars, followVars, fileRead, shutdown>>

\* for _ in range(check_interval): if shutdown: break; time.sleep(1)
sleep_until_next ==
  /\ savePc = "sleep"
  /\ savePc' = "loop"
  /\ UNCHANGED <<ctlVars, auxVars, syncVars, followVars, stateFile, fileRead,
                 shutdown, sig>>

\* the process is killed (SIGKILL, OOM, power): the file stays as it is
Killed ==
  /\ savePc # "dead"
  /\ savePc' = "dead"
  /\ UNCHANGED <<ctlVars, auxVars, syncVars, followVars, stateFile, fileRead,
                 shutdown, sig>>

\* the reconciler is started again: main() loads the state file
Restarted ==
  /\ savePc \in {"dead", "exited"}
  /\ shutdown' = FALSE
  /\ sig' = NoSig
  /\ state' = load_state(stateFile)
  /\ fileRead' = [doc |-> stateFile.doc, part |-> stateFile.part, during |-> savePc]
  /\ savePc' = "loop"
  /\ UNCHANGED <<ctlVars, auxVars, followVars, cfg, local_tables, localData, remoteData,
                 cleanRun, lastCycle, stateFile>>

\* another process reads the state file
ReadStateFile ==
  /\ fileRead' = [doc |-> stateFile.doc, part |-> stateFile.part, during |-> savePc]
  /\ UNCHANGED <<ctlVars, auxVars, syncVars, followVars, stateFile, savePc,
                 shutdown, sig>>

\* the steps of the main thread
MainThread ==
  \/ loop_test
  \/ run_cycle
  \/ run_cycle_raises
  \/ save_open
  \/ save_dump
  \/ save_close
  \/ sleep_until_next

NextSave ==
  \/ loop_test
  \/ handle_signal
  \/ run_cycle
  \/ run_cycle_raises
  \/ sleep_until_next
  \/ save_open
  \/ save_dump
  \/ save_close
  \/ Killed
  \/ Restarted
  \/ ReadStateFile

SpecSave == InitSave /\ [][NextSave]_vars

\* the main thread is never stopped for ever: every request it makes has a
\* timeout
SpecSaveFair == SpecSave /\ WF_vars(MainThread)

\* ================================================= functions, one call
InitCalc ==
  /\ CtlParked
  /\ SyncParked
  /\ FollowParked
  /\ SaveParked
  /\ AuxParked

\* ---------------------------------------- vm_sync.py merge_consecutive
RECURSIVE SortedSeq(_)
\* sorted(gaps): the timestamps in increasing order
SortedSeq(S) ==
  IF S = {} THEN <<>>
  ELSE LET m == CHOOSE x \in S : \A y \in S : x <= y
       IN <<m>> \o SortedSeq(S \ {m})

\* the scenario of the specification: four gaps one step apart
S6Timestamps == <<100, 400, 700, 1000>>

S6Step == 300

\* find_gaps() returns sorted(gaps), the keys of a dict
GapLists == {SortedSeq(S) : S \in SUBSET (0..MaxTs)} \cup {S6Timestamps}

Steps == (1..MaxStep) \cup {S6Step}

RECURSIVE MergeLoopStrict(_, _, _, _, _)
MergeLoopStrict(rest, step, start_ts, end_ts, ranges) ==
  IF rest = <<>> THEN Append(ranges, <<start_ts, end_ts>>)
  ELSE LET ts == Head(rest) IN
       IF ts < end_ts
       THEN MergeLoopStrict(Tail(rest), step, start_ts, ts + step, ranges)
       ELSE MergeLoopStrict(Tail(rest), step, ts, ts + step,
                            Append(ranges, <<start_ts, end_ts>>))

RECURSIVE MergeLoopWide(_, _, _, _, _)
MergeLoopWide(rest, step, start_ts, end_ts, ranges) ==
  IF rest = <<>> THEN Append(ranges, <<start_ts, end_ts>>)
  ELSE LET ts == Head(rest) IN
       IF ts <= end_ts + step
       THEN MergeLoopWide(Tail(rest), step, start_ts, ts + step, ranges)
       ELSE MergeLoopWide(Tail(rest), step, ts, ts + step,
                          Append(ranges, <<start_ts, end_ts>>))

RECURSIVE MergeLoop(_, _, _, _, _)
\* for ts in timestamps[1:]: ...; ranges.append((start, end))
MergeLoop(rest, step, start_ts, end_ts, ranges) ==
  IF rest = <<>> THEN Append(ranges, <<start_ts, end_ts>>)
  ELSE LET ts == Head(rest) IN
       IF ts <= end_ts
       THEN MergeLoop(Tail(rest), step, start_ts, ts + step, ranges)
       ELSE MergeLoop(Tail(rest), step, ts, ts + step,
                      Append(ranges, <<start_ts, end_ts>>))

merge_consecutive_strict(timestamps, step) ==
  IF timestamps = <<>> THEN <<>>
  ELSE MergeLoopStrict(Tail(timestamps), step, timestamps[1], timestamps[1] + step, <<>>)

merge_consecutive_wide(timestamps, step) ==
  IF timestamps = <<>> THEN <<>>
  ELSE MergeLoopWide(Tail(timestamps), step, timestamps[1], timestamps[1] + step, <<>>)

\* merge_consecutive(timestamps, step): the (start, end) ranges
merge_consecutive(timestamps, step) ==
  IF timestamps = <<>> THEN <<>>
  ELSE MergeLoop(Tail(timestamps), step, timestamps[1], timestamps[1] + step, <<>>)

call_merge_consecutive ==
  /\ calc = NoCall
  /\ \E timestamps \in GapLists, step \in Steps :
       calc' = [fn |-> "merge_consecutive", timestamps |-> timestamps,
                step |-> step, ranges |-> merge_consecutive(timestamps, step)]
  /\ UNCHANGED <<ctlVars, syncVars, followVars, saveVars, probeVars>>

\* --------------------------- vm_sync.py run_sync_check, chunking loop
\* CHUNK_SIZE as the environment gives it: int() accepts 0; 300 is the default
ChunkSizes == (0..MaxChunk) \cup {300}

chunk_end_unclamped(chunk_start, chunk_size, range_end) ==
  chunk_start + chunk_size

\* chunk_end = min(chunk_start + cfg.chunk_size, range_end)
chunk_end_of(chunk_start, chunk_size, range_end) ==
  IF chunk_start + chunk_size <= range_end
  THEN chunk_start + chunk_size
  ELSE range_end

RECURSIVE ChunkLoop(_, _, _, _, _)
\* while chunk_start < range_end: the (chunk_start, chunk_end) pairs handed
\* to sync_range, and whether the loop test turned false within `bodies`
\* runs of the body
ChunkLoop(chunk_start, range_end, chunk_size, bodies, calls) ==
  IF ~(chunk_start < range_end) THEN [calls |-> calls, exits |-> TRUE]
  ELSE IF bodies = 0 THEN [calls |-> calls, exits |-> FALSE]
  ELSE LET chunk_end == chunk_end_of(chunk_start, chunk_size, range_end) IN
       ChunkLoop(chunk_end, range_end, chunk_size, bodies - 1,
                 Append(calls, <<chunk_start, chunk_end>>))

\* chunk_start = range_start, then the loop; a range of n seconds needs at
\* most n bodies when every body advances chunk_start
sync_chunks(range, chunk_size) ==
  ChunkLoop(range[1], range[2], chunk_size, range[2] - range[1], <<>>)

\* for range_start, range_end in ranges: the chunking loop of each range;
\* ranges of the 300 second step are cut by the default chunk_size, ranges
\* of a few seconds by every size
call_sync_chunks ==
  /\ calc = NoCall
  /\ \E timestamps \in GapLists, step \in Steps,
        chunk_size \in ChunkSizes :
       /\ (step = S6Step) => (chunk_size = S6Step)
       /\ LET ranges == merge_consecutive(timestamps, step) IN
          calc' = [fn |-> "sync_chunks", ranges |-> ranges,
                   chunk_size |-> chunk_size,
                   runs |-> [i \in 1..Len(ranges) |->
                               sync_chunks(ranges[i], chunk_size)]]
  /\ UNCHANGED <<ctlVars, syncVars, followVars, saveVars, probeVars>>

\* ------------------- otel_watcher_test.py next to otel_watcher_k8s.py
\* what a read of the A record gives a watcher: an IP, or None when the
\* lookup fails (get_dns_ip) or the state file is missing, unreadable or
\* has no "A" key (get_current_ip)
Observations == {primary_ip, dr_ip, NoIp}

StateFileMissingNever(current_ip) == FALSE

\* otel_watcher_test.py: if current_ip is None: ... continue
StateFileMissing(current_ip) == current_ip = NoIp

\* otel_watcher_test.py main(), one pass of the loop: the action it
\* announces, last_state and otel_running after it
test_tick(w, current_ip, site) ==
  IF StateFileMissing(current_ip) THEN [w EXCEPT !.action = "none"]
  ELSE LET should_be_active == current_ip = MY_IP(site) IN
       IF B(should_be_active) # w.last_state
       THEN [last_state |-> B(should_be_active),
             otel_running |-> should_be_active,
             action |-> IF should_be_active THEN "start" ELSE "stop"]
       ELSE [w EXCEPT !.action = "none"]

\* otel_watcher_k8s.py main(), one pass of the loop: the scale_deployment
\* call it issues and last_state after it
k8s_tick(w, current_ip, site) ==
  IF DnsFailed(current_ip) THEN [w EXCEPT !.call = "none"]
  ELSE LET should_be_active == current_ip = MY_IP(site) IN
       IF StateChanged(should_be_active, w.last_state)
       THEN [last_state |-> B(should_be_active),
             call |-> IF should_be_active THEN "OTEL_REPLICAS_ACTIVE"
                      ELSE "OTEL_REPLICAS_INACTIVE"]
       ELSE [w EXCEPT !.call = "none"]

\* both watchers of a site start: last_state = None, otel_running = False
watchers_start ==
  /\ calc = NoCall
  /\ \E site \in Sites :
       calc' = [fn |-> "watchers", site |-> site, observed |-> <<>>,
                test |-> [last_state |-> NoState, otel_running |-> FALSE,
                          action |-> "none"],
                k8s |-> [last_state |-> NoState, call |-> "none"],
                actions |-> <<>>, calls |-> <<>>]
  /\ UNCHANGED <<ctlVars, syncVars, followVars, saveVars, probeVars>>

\* both watchers wake up and read the same value
watchers_tick ==
  /\ calc.fn = "watchers"
  /\ Len(calc.observed) < MaxObs
  /\ \E current_ip \in Observations :
       LET t == test_tick(calc.test, current_ip, calc.site)
           k == k8s_tick(calc.k8s, current_ip, calc.site)
       IN calc' = [calc EXCEPT !.observed = Append(@, current_ip),
                               !.test = t, !.k8s = k,
                               !.actions = Append(@, t.action),
                               !.calls = Append(@, k.call)]
  /\ UNCHANGED <<ctlVars, syncVars, followVars, saveVars, probeVars>>

\* ------------------------------------- the repair of one unit, twice
\* ch_execute() answers of the DROP and of the INSERT
RepairOutcomes == [drop : BOOLEAN, insert : BOOLEAN]

\* ch_sync.py sync_partition, called again for the same partition
call_sync_partition ==
  /\ calc = NoCall
  /\ \E local_rows \in 0..StoreCap, remote_rows \in 0..MaxRows,
        o1, o2 \in RepairOutcomes :
       LET once == sync_partition(local_rows, remote_rows, o1) IN
       calc' = [fn |-> "sync_partition", source |-> remote_rows,
                dest |-> local_rows, first |-> o1, second |-> o2,
                once |-> once, twice |-> sync_partition(once, remote_rows, o2)]
  /\ UNCHANGED <<ctlVars, syncVars, followVars, saveVars, probeVars>>

\* vm_sync.py sync_range, called again for the same range
call_sync_range ==
  /\ calc = NoCall
  /\ \E source_samples \in 0..MaxRows, dest_samples \in 0..StoreCap :
       LET once == sync_range(source_samples, dest_samples) IN
       calc' = [fn |-> "sync_range", source |-> source_samples,
                dest |-> dest_samples,
                once |-> once, twice |-> sync_range(source_samples, once)]
  /\ UNCHANGED <<ctlVars, syncVars, followVars, saveVars, probeVars>>

\* ---------------------------------- which partitions a pass re-copies
\* ch-sync/ch_sync.py sync_table: if src_rows != dst_rows: DROP, INSERT
sync_table(src_parts, dst_parts) ==
  {partition \in Units : src_parts[partition] > 0
                         /\ src_parts[partition] # dst_parts[partition]}

\* rows per partition: the source, and a destination that may hold more
SourceCounts == [Units -> 0..MaxRows]

DestCounts == [Units -> 0..StoreCap]

call_sync_table ==
  /\ calc = NoCall
  /\ \E src_parts \in SourceCounts, dst_parts \in DestCounts, impl \in {"ch_sync", "ch-sync"} :
       calc' = [fn |-> "sync_table", impl |-> impl,
                source |-> src_parts, dest |-> dst_parts,
                dropped |-> IF impl = "ch_sync"
                            THEN find_partition_gaps(src_parts, dst_parts)
                            ELSE sync_table(src_parts, dst_parts)]
  /\ UNCHANGED <<ctlVars, syncVars, followVars, saveVars, probeVars>>

\* ------------------------------------ the repair loops of a cycle
\* the three loops over the units of a cycle: the gap partitions of a table
\* (clickhouse/ch-sync sync_table), the tables of a database (ch-sync
\* sync_database) and the metrics of the source (vm-sync sync_metrics)
RepairLoops == {"ch_sync", "ch-sync", "vm-sync"}

\* what happens to one unit: the repair works; a request of the repair fails
\* (execute returns False, export or import gets an HTTP error); the
\* partition query of the table raises; the create_table_query query for a
\* table the destination lacks raises. ch_query of clickhouse/ch-sync
\* returns [] where ch_query of ch-sync raises.
UnitOutcomes(impl, missing) ==
  {o \in [Units -> {"ok", "failed", "raised", "ddl_raised"}] :
     \A u \in Units :
       /\ o[u] = "raised" => impl = "ch-sync"
       /\ o[u] = "ddl_raised" => (impl = "ch-sync" /\ u \in missing)}

RECURSIVE LoopOver(_, _)
\* for unit in units: the units the body ran for, when the body lets an
\* exception out for the units in leaves
LoopOver(units, leaves) ==
  IF units = <<>> THEN {}
  ELSE IF Head(units) \in leaves THEN {Head(units)}
  ELSE {Head(units)} \cup LoopOver(Tail(units), leaves)

\* clickhouse/ch-sync sync_table: sync_partition returns (False, 0) and the
\* loop over the gaps goes on
ch_sync_table(gaps, out) ==
  [attempted |-> LoopOver(gaps, {}), aborted |-> FALSE]

\* ch-sync sync_database: sync_schema(database) runs before the loop and
\* outside its try; sync_table runs inside the try
sync_database(tables, missing, out) ==
  IF \E t \in missing : out[t] = "ddl_raised"
  THEN [attempted |-> {}, aborted |-> TRUE]
  ELSE [attempted |-> LoopOver(tables, {}), aborted |-> FALSE]

\* vm-sync sync_metrics: export and import of a metric are inside the try
sync_metrics(metrics, out) ==
  [attempted |-> LoopOver(metrics, {}), aborted |-> FALSE]

\* one cycle's loop over the units that need a repair
call_repair_loop ==
  /\ calc = NoCall
  /\ \E impl \in RepairLoops :
     \E missing \in (IF impl = "ch-sync" THEN SUBSET Units ELSE {{}}) :
     \E out \in UnitOutcomes(impl, missing) :
       LET units == SortedSeq(Units)
           r == IF impl = "ch_sync" THEN ch_sync_table(units, out)
                ELSE IF impl = "ch-sync" THEN sync_database(units, missing, out)
                ELSE sync_metrics(units, out)
       IN calc' = [fn |-> "repair_loop", impl |-> impl, missing |-> missing,
                   out |-> out, attempted |-> r.attempted, aborted |-> r.aborted]
  /\ UNCHANGED <<ctlVars, syncVars, followVars, saveVars, probeVars>>

\* ---------------------------------------------- dns_failover.py codec
\* TXT values a zone can hold: leases, and strings that are none
TxtInputs ==
  MalformedTxts
  \cup {None, <<>>}
  \cup {FormatTxt(o, e) : o \in {PRIMARY, DR}, e \in 0..MaxExp}
  \cup {OWNER_KEY \o <<"=">> \o DR,
        EXP_KEY \o <<"=">>,
        EXP_KEY \o <<"=", "7">>,
        OWNER_KEY \o <<"=">> \o DR \o <<" ">> \o EXP_KEY \o <<"=", "1", ".", "5">>}

\* heartbeat_dr / show_dns: parse_txt, .get('owner'), int(.get('exp', '0'))
call_decode ==
  /\ calc = NoCall
  /\ \E txt \in TxtInputs :
       calc' = [fn |-> "decode", txt |-> txt,
                raises |-> ExpRaises(txt),
                owner |-> OwnerOf(txt),
                exp |-> IF ExpRaises(txt) THEN 0 ELSE ExpOf(txt)]
  /\ UNCHANGED <<ctlVars, syncVars, followVars, saveVars, probeVars>>

\* exp values an encoded lease carries: small ones and a Unix time
ExpInputs == (0..MaxExp) \cup {1700000000 + MaxExp}

\* set_records(ip, owner, exp_unix), then the decode of what it wrote
call_roundtrip ==
  /\ calc = NoCall
  /\ \E owner \in {PRIMARY, DR}, exp_unix \in ExpInputs :
       LET txt == FormatTxt(owner, exp_unix) IN
       calc' = [fn |-> "roundtrip", owner |-> owner, exp |-> exp_unix,
                txt |-> txt, raises |-> ExpRaises(txt),
                parsed_owner |-> OwnerOf(txt),
                parsed_exp |-> IF ExpRaises(txt) THEN 0 ELSE ExpOf(txt)]
  /\ UNCHANGED <<ctlVars, syncVars, followVars, saveVars, probeVars>>

NextCalc ==
  \/ call_merge_consecutive
  \/ call_sync_partition
  \/ call_sync_range
  \/ call_sync_chunks
  \/ watchers_start
  \/ watchers_tick
  \/ call_sync_table
  \/ call_repair_loop
  \/ call_decode
  \/ call_roundtrip

SpecCalc == InitCalc /\ [][NextCalc]_vars

\* ------------------------------ dns_failover.py MetricsHealthChecker
InitProbe ==
  /\ CtlParked
  /\ SyncParked
  /\ FollowParked
  /\ SaveParked
  /\ AuxParked

\* fetch_metrics and parse_metric_value: the endpoint does not answer, the
\* metric is not in the answer, or the metric is there and its samples sum
\* to a value
MetricReads == {"unreachable", "absent", "parsed"}

\* the value that goes with a read: there is none unless the metric was parsed
MetricValues(read) == IF read = "parsed" THEN 0..MaxValue ELSE {NoValue}

still_healthy_lenient(self) == self.stale_checks <= health_stale_count

\* return self.stale_checks < self.stale_count
still_healthy(self) == self.stale_checks < health_stale_count

\* check(): the checker after the call, what the call returns, and which
\* branch it took
check_call(self, read, metrics) ==
  IF read \in {"unreachable", "absent"}
  THEN LET t == [self EXCEPT !.stale_checks = @ + 1]
       IN  [self |-> t, ret |-> still_healthy(t), kind |-> "failed"]
  ELSE IF self.last_value = NoValue
  THEN [self |-> [self EXCEPT !.last_value = metrics], ret |-> TRUE,
        kind |-> "baseline"]
  ELSE IF metrics > self.last_value
  THEN [self |-> [last_value |-> metrics, stale_checks |-> 0], ret |-> TRUE,
        kind |-> "compared"]
  ELSE LET t == [last_value |-> metrics,
                 stale_checks |-> self.stale_checks + 1]
       IN  [self |-> t, ret |-> still_healthy(t), kind |-> "compared"]

\* one tick of heartbeat_dr in metrics mode, up to the test that lets it
\* read the lease; lastCheck.run counts the calls in a row, this one
\* included, that did not see the metric increase, and lastCheck.progressed
\* tells that an increase was seen before them
check ==
  /\ checker.stale_checks < MaxStale
  /\ \E read \in MetricReads : \E metrics \in MetricValues(read) :
       LET r == check_call(checker, read, metrics)
           grew == /\ read = "parsed"
                   /\ checker.last_value # NoValue
                   /\ metrics > checker.last_value
           f == CountFailures(r.ret, consecutive_failures)
       IN  /\ checker' = r.self
           /\ consecutive_failures' = f
           /\ lastCheck' =
                [kind |-> r.kind,
                 previous |-> checker.last_value,
                 current |-> metrics,
                 healthy |-> r.ret,
                 run |-> IF grew THEN 0
                         ELSE IF r.kind = "baseline" THEN lastCheck.run
                         ELSE lastCheck.run + 1,
                 progressed |-> grew \/ lastCheck.progressed,
                 reads_lease |-> ~r.ret /\ ThresholdReached(f)]
  /\ UNCHANGED <<now, provider, recA, recTXT, inflight, pcP, nextP, pcD, nextD,
                 adminLeft, drTick, lastCommit, lastPrimaryOK, pExpLast,
                 pExpPrev, sinceOK>>
  /\ UNCHANGED <<syncVars, followVars, saveVars, calc>>

\* the controller is started again: a new checker is built
new_checker ==
  /\ checker # Checker0
  /\ checker' = Checker0
  /\ consecutive_failures' = 0
  /\ lastCheck' = NoCheck
  /\ UNCHANGED <<now, provider, recA, recTXT, inflight, pcP, nextP, pcD, nextD,
                 adminLeft, drTick, lastCommit, lastPrimaryOK, pExpLast,
                 pExpPrev, sinceOK>>
  /\ UNCHANGED <<syncVars, followVars, saveVars, calc>>

NextProbe ==
  \/ check
  \/ new_checker

SpecProbe == InitProbe /\ [][NextProbe]_vars

\* ======================================================= claims under Spec
DrWroteThisTick == drTick.wrA # NoIp \/ drTick.wrTXT # None

DrTouchedNothing ==
  drTick.wrA = NoIp /\ drTick.wrTXT = None /\ inflight["dr"].stage = "idle"

\* C1 (as stated): the DR loop writes a dr record only in a tick with
\* consecutive_failures >= fail_threshold and now >= the exp it read.
C1_Original ==
  DrWroteThisTick =>
    /\ drTick.fails >= fail_threshold
    /\ drTick.read
    /\ drTick.at >= ExpOf(drTick.txt)

\* C1 (amended): the DR loop writes a dr record only in a tick with
\* consecutive_failures >= fail_threshold in which the lease it read either
\* names dr as owner (renewal) or has exp < now (promotion).
C1_DrWriteGuarded ==
  DrWroteThisTick =>
    /\ drTick.fails >= fail_threshold
    /\ drTick.read
    /\ (OwnerOf(drTick.txt) = DR \/ ExpOf(drTick.txt) < drTick.at)
    /\ drTick.wrA \in {NoIp, dr_ip}

C1_Witness ==
  /\ drTick.wrA = dr_ip
  /\ OwnerOf(drTick.txt) = PRIMARY
  /\ ExpOf(drTick.txt) < drTick.at

\* the primary loop's latest set_records succeeded at most update_interval ago
PrimaryRenewing == lastPrimaryOK > 0 /\ now - lastPrimaryOK <= update_interval

\* C2: while the primary loop's set_records succeeds every update_interval
\* seconds and the lease names primary, the DR loop starts no write.
C2_RenewingPrimaryNotDisplaced ==
  [][~( /\ inflight["dr"].stage = "idle"
        /\ inflight'["dr"].stage = "call"
        /\ PrimaryRenewing
        /\ OwnerOf(recTXT) = PRIMARY )]_vars

\* C3: with working provider calls and a lease owned by primary, a DR tick
\* that read a still-valid lease writes nothing, and a DR tick that read an
\* expired lease writes (dr_ip, "dr", now + lease_ttl).
C3_Failover ==
  (drTick.read /\ ~drTick.raised /\ OwnerOf(drTick.txt) = PRIMARY) =>
    /\ ExpOf(drTick.txt) >= drTick.at => DrTouchedNothing
    /\ (ExpOf(drTick.txt) < drTick.at /\ drTick.done) =>
         /\ drTick.wrA = dr_ip
         /\ OwnerOf(drTick.wrTXT) = DR
         /\ ExpOf(drTick.wrTXT) = drTick.at + lease_ttl

C3_Witness ==
  /\ drTick.read /\ ~drTick.raised /\ drTick.done
  /\ OwnerOf(drTick.txt) = PRIMARY
  /\ ExpOf(drTick.txt) < drTick.at
  /\ drTick.wrTXT # None

IpFor(owner) ==
  IF owner = PRIMARY THEN primary_ip ELSE IF owner = DR THEN dr_ip ELSE NoIp

Coherent == recA # NoIp /\ recA = IpFor(OwnerOf(recTXT))

\* C4 (as stated): right after any successful set_records the A record is
\* the IP of the owner named in TXT, also with concurrent two-call writers.
C4_Original == lastCommit \in {"final_clean", "final_overlapped"} => Coherent

\* C4 (amended): right after a successful set_records whose A and TXT
\* commits were not interleaved with another writer's commit, the A record
\* is the IP of the owner named in TXT.
C4_PairCoherent == lastCommit = "final_clean" => Coherent

C4_Witness ==
  /\ lastCommit = "final_clean" /\ provider = "infoblox"
  /\ OwnerOf(recTXT) = DR /\ recA = dr_ip

\* C5: the TXT owner changes from dr to primary only by the commit of a
\* failback (or init) command.
C5_FailbackOperatorOnly ==
  [][(OwnerOf(recTXT) = DR /\ OwnerOf(recTXT') = PRIMARY) =>
       \E w \in Writers : /\ inflight[w].cmd \in {"failback", "init"}
                          /\ inflight'[w].stage = "idle"]_vars

\* C6: a DR tick that read an absent or malformed lease (owner null,
\* exp 0) does not promote and writes nothing.
C6_MalformedForcesWait ==
  ( /\ drTick.read /\ ~drTick.raised
    /\ OwnerOf(drTick.txt) = None /\ ExpOf(drTick.txt) = 0 ) => DrTouchedNothing

\* C7: a provider call that raises leaves the DR loop running with its
\* consecutive_failures intact.
C7_SurvivesProviderError ==
  drTick.raised => (pcD = "run" /\ consecutive_failures = drTick.fails)

C8_Premise == sinceOK.clean /\ pcD = "run"

\* C8 (as stated): with the probe failing on every DR tick since the
\* primary's last successful heartbeat t0, the DR has promoted by t0 + L.
C8_Original ==
  (C8_Premise /\ now > lastPrimaryOK + lease_ttl) => sinceOK.promoted

Max(a, b) == IF a >= b THEN a ELSE b

C8_Bound == Max(lease_ttl + update_interval, fail_threshold * update_interval)

\* C8 (amended): under the same premise the DR has promoted by
\* t0 + max(L + U, F * U): it promotes on its first tick that is later than
\* t0 + L and has consecutive_failures >= F.
C8_PromotesWithinBound ==
  (C8_Premise /\ now > lastPrimaryOK + C8_Bound) => sinceOK.promoted

C8_Witness ==
  C8_Premise /\ now > lastPrimaryOK + C8_Bound /\ sinceOK.promoted

\* C9: the exp values of successive successful primary-loop writes are
\* non-decreasing.
C9_MonotonicLease == pExpLast >= pExpPrev

C9_Witness == pExpPrev > 0 /\ pExpLast > pExpPrev

\* C10 - failback gating: failback_ready is true at the end of a reconciler
\* cycle only if each of the preceding failback_clean_checks cycles compared
\* the two datastores, found zero gaps and had the remote site as the active
\* site; neither a cycle with the reconciler's own site active nor a skipped
\* cycle is among them
C10_FailbackGating ==
  state.failback_ready => cleanRun >= failback_clean_checks

\* C11 - at the end of every cycle of either reconciler, started from the
\* default SyncState, failback_ready implies consecutive_clean >=
\* failback_clean_checks, and a cycle that found a gap (repairs succeeded or
\* not) ends with failback_ready false
C11_ReadyOnlyAfterCleans ==
  /\ state.failback_ready => state.consecutive_clean >= failback_clean_checks
  /\ (lastCycle.kind = "checked" /\ lastCycle.gaps) => ~state.failback_ready

\* C12 - in every persisted SyncState failback_ready implies that the
\* recorded active_site is the remote site, not the reconciler's own role
C12_ReadyOnlyWhileRemoteActive ==
  state.failback_ready => state.active_site \in Sites \ {cfg.role}

\* the latest cycle compared the datastores, found no gap and took
\* consecutive_clean to failback_clean_checks
ReachedCleanChecks ==
  /\ lastCycle.kind = "checked" /\ ~lastCycle.gaps
  /\ lastCycle.was_clean = failback_clean_checks - 1
  /\ state.consecutive_clean = failback_clean_checks

FlippedReady == state.failback_ready /\ ~lastCycle.was_ready

\* C13 - one-shot failback notification: failback_ready flips from false to
\* true exactly in the cycle where a run of clean cycles takes
\* consecutive_clean to failback_clean_checks, the failback_ready notification
\* is sent in exactly that cycle, hence once per run and again for a later run
\* of cleans that follows a gap cycle
C13_OneShotNotification ==
  lastCycle.kind # "none" =>
    /\ FlippedReady <=> ReachedCleanChecks
    /\ ("failback_ready" \in lastCycle.notes) <=> ReachedCleanChecks

\* C14 - a cycle in which DNS names the reconciler's own site as active
\* increments consecutive_clean and sends no request to either datastore: no
\* enumeration, export, import, drop or insert
C14_OwnSiteActiveTouchesNothing ==
  (lastCycle.kind # "none" /\ lastCycle.active = cfg.role) =>
    /\ state.consecutive_clean = lastCycle.was_clean + 1
    /\ lastCycle.ops = {}

\* the datastore of the site the latest cycle saw as active
ActiveStore == IF lastCycle.active = cfg.role THEN "local" ELSE "remote"

EdgeTick == folTick.site # "none" /\ adapter \in {"k8s", "docker"}

C17_CrashRecovery ==
  (/\ folTick.site # "none" /\ adapter # "k8s"
   /\ ~folTick.dns_failed /\ folTick.should /\ ~folTick.was_alive)
  => folTick.launches > 0

\* C18 - a tick whose DNS resolution failed leaves last_state unchanged and
\* invokes neither the activate nor the deactivate side-effect, whatever the
\* workload's state
C18_DnsFailureKeepsState ==
  (folTick.site # "none" /\ folTick.dns_failed) =>
    /\ fol[folTick.site].last_state = folTick.prev
    /\ folTick.activate = 0
    /\ folTick.deactivate = 0

\* a failed lookup on a follower that had been active, workload up or down
C18_Witness ==
  /\ folTick.site # "none" /\ folTick.dns_failed
  /\ folTick.prev = "True"
  /\ zoneA # MY_IP(folTick.site)

\* C19 - only one site collects telemetry at a time: with one follower per
\* site polling the same A record, the collectors of both sites never run
\* at the same time
C19_OneCollector ==
  ~(fol["primary"].collector.alive /\ fol["dr"].collector.alive)

\* C20 - the state file is replaced atomically: a process that reads the
\* file while save_state runs, or after the reconciler was killed in the
\* middle of save_state, sees a complete document (the previous or the new
\* one), never an empty or partial one
C20_AtomicStateFile ==
  fileRead.during \in {"opened", "dumping", "dead"} =>
    fileRead.part \notin {"empty", "partial"}

\* a ch_sync cycle that enumerated tables and partitions of both sides
ChChecked == cfg.variant = "ch_sync" /\ lastCycle.kind = "checked"

RepairOps == {[op |-> "drop", store |-> "local"], [op |-> "insert", store |-> "local"]}

\* C21 - partial repair is recoverable: a cycle that found a gap is not
\* counted as clean, and when a repair left a partition empty (dropped, the
\* insert failed) the next cycle that reads both sides finds the same
\* partition as a gap and drops and inserts it again; a repair that then
\* succeeds brings the rows back
C21_PartialRepairRecoverable ==
  ChChecked =>
    /\ lastCycle.units # {} => state.consecutive_clean = 0
    /\ lastCycle.seen_ok =>
         \A p \in lastCycle.was_missing :
           /\ p \in lastCycle.units
           /\ RepairOps \subseteq lastCycle.ops
           /\ state.consecutive_clean = 0

\* the partition a failed repair had left empty is a gap again and is filled
C21_Witness ==
  /\ ChChecked /\ lastCycle.seen_ok
  /\ \E p \in lastCycle.was_missing :
       /\ p \in lastCycle.units
       /\ localData[p] = remoteData[p] /\ localData[p] > 0
  /\ state.consecutive_clean = 0

\* C22 - repair idempotence: with an unchanged source, the repair of a unit
\* applied twice leaves the destination as applying it once does
C22_RepairIdempotent ==
  /\ (calc.fn = "sync_partition" /\ calc.first.insert /\ calc.second.insert)
       => calc.twice = calc.once
  /\ calc.fn = "sync_range" => calc.twice = calc.once

\* the time points of the buckets [t, t + step) of the gap timestamps
Buckets(timestamps, step) ==
  UNION {t..(t + step - 1) : t \in {timestamps[i] : i \in 1..Len(timestamps)}}

\* the time points of the ranges [start, end)
Covered(ranges) ==
  UNION {ranges[i][1]..(ranges[i][2] - 1) : i \in 1..Len(ranges)}

\* C23 - gap range merging: the ranges of merge_consecutive cover exactly
\* the buckets [t, t + step) of the sorted input timestamps
C23_RangesCoverBuckets ==
  calc.fn = "merge_consecutive" =>
    Covered(calc.ranges) = Buckets(calc.timestamps, calc.step)

\* two runs of gaps with a hole between them: two ranges
C23_Witness ==
  /\ calc.fn = "merge_consecutive"
  /\ Len(calc.timestamps) >= 3
  /\ Len(calc.ranges) = 2
  /\ Covered(calc.ranges) = Buckets(calc.timestamps, calc.step)

\* timestamps spaced exactly one step apart
IsRun(timestamps, step) ==
  /\ timestamps # <<>>
  /\ \A i \in 2..Len(timestamps) : timestamps[i] = timestamps[i - 1] + step

\* C24 - a run of gap timestamps one step apart merges into one range
\* (t, t + step) per timestamp, each starting where the previous one ends
C24_OneRangePerTimestamp ==
  (calc.fn = "merge_consecutive" /\ IsRun(calc.timestamps, calc.step)) =>
    calc.ranges = [i \in 1..Len(calc.timestamps) |->
                     <<calc.timestamps[i], calc.timestamps[i] + calc.step>>]

\* C24 as merge_consecutive behaves - a run of gap timestamps one step apart
\* merges into the single range (first, last + step): [100, 400, 700, 1000]
\* with step 300 gives [(100, 1300)]
C24_RunMergesIntoOneRange ==
  (calc.fn = "merge_consecutive" /\ IsRun(calc.timestamps, calc.step)) =>
    calc.ranges = << <<calc.timestamps[1],
                       calc.timestamps[Len(calc.timestamps)] + calc.step>> >>

C24_Witness ==
  /\ calc.fn = "merge_consecutive"
  /\ calc.timestamps = S6Timestamps /\ calc.step = S6Step
  /\ calc.ranges = << <<100, 1300>> >>

\* C25 - exact-row gap predicate: a partition is dropped and re-copied if
\* and only if the destination holds strictly fewer rows than the source
C25_GapIffFewerRows ==
  calc.fn = "sync_table" =>
    calc.dropped = {p \in Units : calc.dest[p] < calc.source[p]}

\* C27 - the lease decode is total: for every TXT string the decode of the
\* DR loop and of show returns an (owner, exp) pair and never raises, with
\* exp = 0 when exp is missing or is not a number
C27_DecodeTotal ==
  calc.fn = "decode" =>
    /\ ~calc.raises
    /\ (~ExpTruthy(calc.txt) \/ ~IsIntLiteral(Get(parse_txt(calc.txt), EXP_KEY, None)))
         => calc.exp = 0

\* C28 - lease codec round trip: parsing the TXT string set_records writes
\* for (owner, e), owner primary or dr and e a natural number, gives (owner, e)
C28_CodecRoundTrip ==
  calc.fn = "roundtrip" =>
    /\ ~calc.raises
    /\ calc.parsed_owner = calc.owner
    /\ calc.parsed_exp = calc.exp

\* a dr lease with a Unix time of ten digits came back as written
C28_Witness ==
  /\ calc.fn = "roundtrip"
  /\ calc.owner = DR /\ calc.exp > 1700000000
  /\ calc.parsed_owner = DR /\ calc.parsed_exp = calc.exp

\* C26 as stated: after the baseline call, a check() that fetched and parsed
\* the metric returned healthy if and only if the value was strictly greater
\* than the previously recorded one.
C26_HealthyIffIncreased ==
  lastCheck.kind = "compared" =>
    (lastCheck.healthy <=> lastCheck.current > lastCheck.previous)

\* C26 amended: after the baseline call, a check() that fetched and parsed the
\* metric returned healthy if and only if the value strictly increased or
\* fewer than stale_count calls in a row, this one included, saw no increase.
C26_HealthyUntilStaleCount ==
  lastCheck.kind = "compared" =>
    (lastCheck.healthy <=>
       \/ lastCheck.current > lastCheck.previous
       \/ lastCheck.run < health_stale_count)

C26_Witness ==
  /\ lastCheck.kind = "compared"
  /\ lastCheck.current <= lastCheck.previous
  /\ lastCheck.run >= health_stale_count
  /\ ~lastCheck.healthy

\* after a signal no cycle is started; a cycle that was running when the
\* signal arrived was finished, and what it left was saved, before the exit
C29_Safe ==
  /\ ~sig.cycled
  /\ (savePc = "exited" /\ sig.at = "cycle") => sig.finished
  /\ (savePc = "exited" /\ sig.at \in {"cycle", "save", "opened", "dumping"}) =>
       /\ sig.saved
       /\ stateFile = [doc |-> state, part |-> "complete"]

\* C29 - reconciler shutdown: when SIGINT or SIGTERM arrives at any point of
\* a cycle, the reconciler finishes the current cycle, saves the state file,
\* starts no further cycle and exits (unless it is killed first)
C29_GracefulShutdown ==
  /\ []C29_Safe
  /\ shutdown ~> savePc \in {"exited", "dead"}

C29_Witness ==
  /\ savePc = "exited"
  /\ sig.at = "cycle"
  /\ sig.finished /\ sig.saved
  /\ state # SyncState0

\* C30 - follower shutdown: a subprocess follower that exited on SIGINT or
\* SIGTERM sent SIGTERM to the process group of a collector that was running,
\* sent SIGKILL exactly when the collector was still alive after the 10
\* seconds, and left no collector it started running
C30_FollowerShutdown ==
  \A site \in Sites :
    folDown[site].exited =>
      /\ ~fol[site].collector.alive
      /\ folDown[site].was_alive =>
           /\ "SIGTERM" \in folDown[site].signals
           /\ "SIGKILL" \in folDown[site].signals <=> ~folDown[site].graceful

\* the latest cycle returned early: a health probe failed or DNS named no site
SkippedEarly == lastCycle.kind = "skipped" /\ lastCycle.active = NoSite

\* C31 - a reconciler cycle in which a datastore's health probe fails, or DNS
\* resolves to neither the primary nor the DR IP, records last_error, sends
\* no enumeration and no repair, and leaves consecutive_clean and
\* failback_ready as they were
C31_SkippedCycleFrame ==
  SkippedEarly =>
    /\ state.last_error # NoError
    /\ lastCycle.ops = {}
    /\ state.consecutive_clean = lastCycle.was_clean
    /\ state.failback_ready = lastCycle.was_ready

C31_Witness ==
  /\ SkippedEarly
  /\ lastCycle.was_clean > 0
  /\ lastCycle.was_ready

\* C32 - a failed repair of one unit (partition, table or metric) does not
\* abort the cycle: no exception leaves the loop, and every unit is still
\* attempted in the same cycle
C32_UnitErrorsIsolated ==
  calc.fn = "repair_loop" =>
    /\ ~calc.aborted
    /\ calc.attempted = Units

\* the DR loop called get_records or set_records in the tick it is in
DrCalledProvider ==
  drTick.read \/ drTick.raised \/ inflight["dr"].stage # "idle"

\* C33 - the DR loop calls the provider only in ticks where the health probe
\* has failed on at least fail_threshold ticks in a row, and a healthy probe
\* takes consecutive_failures back to 0
C33_ProviderOnlyAfterThreshold ==
  /\ DrCalledProvider => sinceOK.failed_probes >= fail_threshold
  /\ sinceOK.failed_probes = 0 => consecutive_failures = 0

C33_Witness ==
  /\ drTick.read
  /\ sinceOK.failed_probes = fail_threshold
  /\ recTXT # None

\* a tick of the DR loop that has ended, run while the published lease named
\* dr, in which no provider call raised and a read returned the lease
DrTickOnOwnLease ==
  /\ drTick.at # 0 /\ drTick.dr_owned
  /\ drTick.done /\ ~drTick.raised
  /\ drTick.read => drTick.txt # None

\* C34 - while the lease owner is dr and the provider works, the DR loop
\* renews the lease on every tick, also after the primary's probe has turned
\* healthy again
C34_RenewsEveryTick ==
  DrTickOnOwnLease => drTick.wrTXT # None

\* C35 - a cycle in which an enumeration query against either datastore
\* failed is not counted as clean: consecutive_clean is not incremented and
\* failback_ready is not set by it
C35_FailedQueryNotClean ==
  (lastCycle.kind = "checked" /\ ~lastCycle.seen_ok) =>
    /\ state.consecutive_clean <= lastCycle.was_clean
    /\ state.failback_ready => lastCycle.was_ready

\* a tick of an edge-acting watcher in which DNS resolved the same way as on
\* the tick before and the workload was not in the state DNS asks for
MismatchTick ==
  /\ EdgeTick /\ ~folTick.dns_failed
  /\ folTick.prev = B(folTick.should)
  /\ folTick.was_alive # folTick.should

\* C36 - when the activate or deactivate side-effect failed on the tick of
\* an ownership edge, the follower invokes it again on the later ticks on
\* which DNS keeps resolving the same way
C36_RetriesFailedSideEffect ==
  MismatchTick =>
    IF folTick.should THEN folTick.activate > 0 ELSE folTick.deactivate > 0

\* C37 - in metrics health mode, counting from a reading that showed
\* progress, the DR loop reads the lease on the (health_stale_count +
\* fail_threshold - 1)-th tick in a row without metric progress (flat,
\* decreasing, unreachable or metric absent), and on no earlier tick
C37_FirstLeaseRead ==
  (lastCheck.kind # "none" /\ lastCheck.progressed) =>
    (lastCheck.reads_lease <=>
       lastCheck.run >= health_stale_count + fail_threshold - 1)

C37_Witness ==
  /\ lastCheck.progressed
  /\ lastCheck.reads_lease
  /\ lastCheck.run = health_stale_count + fail_threshold - 1

\* the chunks of one run start at the range start, end at the range end,
\* each begin where the previous one ends, are not empty and are at most
\* chunk_size long
ChunksTile(range, chunk_size, run) ==
  /\ run.exits
  /\ run.calls # <<>>
  /\ run.calls[1][1] = range[1]
  /\ run.calls[Len(run.calls)][2] = range[2]
  /\ \A j \in 1..Len(run.calls) :
       /\ run.calls[j][1] < run.calls[j][2]
       /\ run.calls[j][2] - run.calls[j][1] <= chunk_size
       /\ j > 1 => run.calls[j][1] = run.calls[j - 1][2]

\* C38 - for every merged gap range and every chunk_size >= 1 the chunking
\* loop terminates, and its sync_range calls are consecutive, do not
\* overlap, are each at most chunk_size long and cover exactly the range
C38_ChunksTileRange ==
  (calc.fn = "sync_chunks" /\ calc.chunk_size >= 1) =>
    \A i \in 1..Len(calc.ranges) :
      ChunksTile(calc.ranges[i], calc.chunk_size, calc.runs[i])

\* a range cut into three chunks or more, the last one shorter
C38_Witness ==
  /\ calc.fn = "sync_chunks" /\ calc.chunk_size >= 2
  /\ \E i \in 1..Len(calc.ranges) :
       LET c == calc.runs[i].calls IN
       /\ calc.runs[i].exits
       /\ Len(c) >= 3
       /\ c[Len(c)][2] - c[Len(c)][1] < calc.chunk_size
       /\ c[Len(c)][2] = calc.ranges[i][2]

\* the collector processes a follower started that are alive
LiveCollectors(c) == c.orphans + Count(c.alive)

ScaleFor(action) ==
  CASE action = "start" -> "OTEL_REPLICAS_ACTIVE"
    [] action = "stop" -> "OTEL_REPLICAS_INACTIVE"
    [] OTHER -> "none"

\* C40 - for every sequence of observed A-record values, failed reads
\* included, the test-mode watcher takes the same start/stop decisions, tick
\* by tick, as the Kubernetes watcher issues scale-to-active and
\* scale-to-inactive calls
C40_TestModeMatchesK8s ==
  calc.fn = "watchers" =>
    /\ calc.calls = [i \in 1..Len(calc.actions) |-> ScaleFor(calc.actions[i])]
    /\ calc.test.last_state = calc.k8s.last_state
    /\ calc.test.otel_running = (calc.test.last_state = "True")

\* a failed read first, then a start, a failed read, and a stop
C40_Witness ==
  /\ calc.fn = "watchers"
  /\ Len(calc.observed) = 4
  /\ calc.observed[1] = NoIp /\ calc.observed[3] = NoIp
  /\ calc.actions = <<"none", "start", "none", "stop">>
  /\ calc.calls = <<"none", "OTEL_REPLICAS_ACTIVE", "none",
                    "OTEL_REPLICAS_INACTIVE">>

====
